---- MODULE Spec2Model ----
(***************************************************************************)
(* Model of the PDF extraction engine (backend/app/services/               *)
(* pdf_processor.py, backend/app/security/security_wrapper.py) and of the  *)
(* revision/audit history store (backend/app/security/                     *)
(* extraction_history.py, backend/app/security/audit_logger.py), of the    *)
(* security services around them (file_handler.py, network_blocker.py,     *)
(* memory_manager.py) and of the IPC message handler                       *)
(* (backend/app/message_handler.py, backend/app/protocols.py).             *)
(*                                                                         *)
(* Conventions                                                             *)
(*   - Python None is the string None for optional strings and the empty   *)
(*     sequence for optional numbers (<<x>> is the number x).              *)
(*   - confidences are integers in hundredths (0.95 is 95).                *)
(*   - a Python str built by += is the sequence of the pieces appended; it *)
(*     is the empty str iff every piece is the empty str.                  *)
(***************************************************************************)
EXTENDS Integers, Sequences, FiniteSets, TLC

VARIABLES
    \* ---- PDFProcessor.process_pdf: one call ----
    pc,               \* position of the call
    session_id,       \* the session_id argument of process_pdf
    result,           \* the ExtractionResult of _process_pdf_internal
    status_trace,     \* every value result.status has had, in order
    extracted_data,   \* the local extracted_data of _process_pdf_internal
    primary_out,      \* what _extract_with_pdfplumber returned
    fallback_out,     \* what _extract_with_pypdf2 returned
    fallback_invoked, \* whether _extract_with_pypdf2 was called
    matched_pages,    \* the (page_num, page_text) pairs given to the matcher
    raised,           \* the exception raised to the caller of process_pdf
    \* ---- ExtractionHistoryManager: the store ----
    extraction_history,   \* table extraction_history, in insertion order
    extraction_revisions, \* table extraction_revisions, in insertion order
    field_extractions,    \* table field_extractions, a set of rows
    audit_logs,           \* table audit_logs of the base AuditLogger
    clock,                \* datetime.now() of the latest call
    next_id,              \* source of uuid4() values
    ops_left,             \* number of store calls still to be made
    last_call,            \* the latest store call, its outcome and pre-state
    \* ---- threads calling one ExtractionHistoryManager ----
    lock,                 \* self._lock: the thread holding it, or None
    tpc,                  \* position of each thread in its call
    calls,                \* the call each thread is in: arguments and locals
    conn,                 \* the uncommitted writes of each thread's connection
    \* ---- one call of a helper method of PDFProcessor ----
    frame,                \* the method, its position, arguments and locals
    \* ---- background cleanup workers and the secure temp directory ----
    now,                  \* the wall clock, in seconds
    temp_dir,             \* files of SecureFileHandler.temp_dir: st_mtime of each
    active_files,         \* SecureFileHandler.active_files: creation time of each
    file_worker,          \* SecureFileHandler._cleanup_worker: position, last pass
    audit_worker,         \* the cleanup thread of AuditLogger: position, last pass
    secure_op,            \* one process_with_security call and its secure copy
    \* ---- NetworkBlocker and the calls wrapped by ensure_local_only ----
    is_blocked,           \* NetworkBlocker._is_blocked
    wrapped,              \* each thread's wrapper call: position and was_blocked
    \* ---- MemoryManager and its MemoryContext objects ----
    memory_limit_mb,      \* MemoryManager._memory_limit_mb
    contexts,             \* the MemoryContext objects of each thread, outermost first
    \* ---- MessageHandler ----
    sessions,             \* MessageHandler.sessions: the status under each session id
    stats,                \* MessageHandler.stats
    tasks                 \* the process_message coroutines: message, position, outcome

proc_vars == <<pc, session_id, result, status_trace, extracted_data, primary_out,
               fallback_out, fallback_invoked, matched_pages, raised>>
store_vars == <<extraction_history, extraction_revisions, field_extractions,
                audit_logs, clock, next_id, ops_left, last_call>>
txn_vars == <<lock, tpc, calls, conn>>
worker_vars == <<now, temp_dir, active_files, file_worker, audit_worker, secure_op>>
net_vars == <<is_blocked, wrapped>>
mem_vars == <<memory_limit_mb, contexts>>
msg_vars == <<sessions, stats, tasks>>
sec_vars == <<worker_vars, net_vars, mem_vars, msg_vars>>
vars == <<proc_vars, store_vars, txn_vars, frame, sec_vars>>

None == "None"

\* ---------------------------------------------------------------- bounds
MaxPages == 2
MaxOps == 3
MaxWideOps == 2
MaxCalls == 2
\* The wall clock of the cleanup workers stops at MaxTime, and each worker
\* makes at most MaxRuns passes.
MaxTime == 2
MaxRuns == 2
\* The number of messages the handler is given.
MaxMessages == 2
\* The seconds that pass while the handler is given messages.
MaxSeconds == 1
\* The number of wrapped calls each thread makes.
MaxWrappedCalls == 2
\* The number of memory contexts each thread creates.
MaxContexts == 2
\* The wall clock of the revising threads stops at MaxClock.
MaxClock == 1

RECURSIVE Flatten(_)
Flatten(ss) == IF ss = <<>> THEN <<>> ELSE Head(ss) \o Flatten(Tail(ss))

\* ---- Python strings ---------------------------------------------------
\* Where the program looks inside a str (strip, find, in, slices, regular
\* expressions) the str is its characters: a sequence of one-character
\* strings.
Digits == {"0", "1", "2", "3", "4", "5", "6", "7", "8", "9"}
LowerLetters ==
    <<"a", "b", "c", "d", "e", "f", "g", "h", "i", "j", "k", "l", "m", "n", "o", "p", "q",
        "r", "s", "t", "u", "v", "w", "x", "y", "z">>
UpperLetters ==
    <<"A", "B", "C", "D", "E", "F", "G", "H", "I", "J", "K", "L", "M", "N", "O", "P", "Q",
        "R", "S", "T", "U", "V", "W", "X", "Y", "Z">>
Letters == {LowerLetters[i] : i \in 1..26} \cup {UpperLetters[i] : i \in 1..26}
Whitespace == {" ", "\n", "\t"}
WordChars == Digits \cup Letters \cup {"_"}

\* str.lower and str.upper
ToLower(c) ==
    IF \E i \in 1..26 : UpperLetters[i] = c
    THEN LowerLetters[CHOOSE i \in 1..26 : UpperLetters[i] = c] ELSE c
ToUpper(c) ==
    IF \E i \in 1..26 : LowerLetters[i] = c
    THEN UpperLetters[CHOOSE i \in 1..26 : LowerLetters[i] = c] ELSE c
Lower(s) == [i \in 1..Len(s) |-> ToLower(s[i])]

\* str.strip
Strip(s) ==
    LET keep == {i \in 1..Len(s) : s[i] \notin Whitespace}
    IN IF keep = {} THEN <<>>
       ELSE SubSeq(s, CHOOSE i \in keep : \A j \in keep : i <= j,
                      CHOOSE i \in keep : \A j \in keep : i >= j)

\* str.isdigit
IsDigit(s) == s # <<>> /\ \A i \in 1..Len(s) : s[i] \in Digits

\* s.find(sub): the 0-based index of the first occurrence, -1 when there
\* is none; and sub in s.
Find(s, sub) ==
    LET at == {i \in 1..(Len(s) + 1) :
                  /\ i + Len(sub) - 1 <= Len(s)
                  /\ \A k \in 1..Len(sub) : s[i + k - 1] = sub[k]}
    IN IF at = {} THEN -1 ELSE (CHOOSE i \in at : \A j \in at : i <= j) - 1
Contains(s, sub) == Find(s, sub) >= 0

\* s[lo:hi] for 0 <= lo
Slice(s, lo, hi) ==
    LET h == IF hi < Len(s) THEN hi ELSE Len(s)
    IN IF lo >= h THEN <<>> ELSE SubSeq(s, lo + 1, h)

\* The first of s.split('\n') that contains sub, in a one-element
\* sequence; the empty sequence when no line does.
FirstLineWith(s, sub) ==
    LET breaks == {0, Len(s) + 1} \cup {i \in 1..Len(s) : s[i] = "\n"}
        end(a) == CHOOSE b \in breaks : b > a /\ \A c \in breaks : c > a => b <= c
        line(a) == SubSeq(s, a + 1, end(a) - 1)
        hits == {a \in breaks : a <= Len(s) /\ Contains(line(a), sub)}
    IN IF hits = {} THEN <<>>
       ELSE << line(CHOOSE a \in hits : \A b \in hits : a <= b) >>

\* ---- regular expressions ----------------------------------------------
\* The syntax of the patterns the program hands to the re module.
OneOf(set) == [t |-> "set", set |-> set]
Lit(c) == OneOf({c})
Dot == [t |-> "dot"]
Concat(items) == [t |-> "seq", items |-> items]
Alt(items) == [t |-> "alt", items |-> items]
Word(w) == Concat([i \in 1..Len(w) |-> Lit(w[i])])
Between(r, min, max) ==
    [t |-> "rep", r |-> r, min |-> min, max |-> max, bounded |-> TRUE, greedy |-> TRUE]
AtLeast(r, min) ==
    [t |-> "rep", r |-> r, min |-> min, max |-> min, bounded |-> FALSE, greedy |-> TRUE]
LazyAtLeast(r, min) ==
    [t |-> "rep", r |-> r, min |-> min, max |-> min, bounded |-> FALSE, greedy |-> FALSE]
Opt(r) == Between(r, 0, 1)
Star(r) == AtLeast(r, 0)
Plus(r) == AtLeast(r, 1)
Group(r) == [t |-> "group", r |-> r]
Lookahead(r) == [t |-> "lookahead", r |-> r]
WordBoundary == [t |-> "wb"]
StartOfLine == [t |-> "bol"]
EndOfLine == [t |-> "eol"]
DigitChar == OneOf(Digits)
SpaceChar == OneOf(Whitespace)
WordChar == OneOf(WordChars)

\* The flags of a call of the re module.
Flags(ignorecase, multiline) == [ignorecase |-> ignorecase, multiline |-> multiline]

\* Whether a pattern for one character accepts c.
AcceptsChar(n, c, fl) ==
    IF n.t = "dot" THEN c # "\n"
    ELSE c \in n.set \/ (fl.ignorecase /\ (ToLower(c) \in n.set \/ ToUpper(c) \in n.set))

\* The backtracking matcher of the re module: every way pattern n matches s
\* from position i, in the order in which they are tried (a greedy
\* repetition prefers more iterations, a lazy one fewer, an alternation its
\* earlier branch). An outcome is the position after the match and the
\* span of the capturing group, if it took part.
RECURSIVE Run(_, _, _, _, _)
RECURSIVE RunSeq(_, _, _, _, _, _)
RECURSIVE RunRep(_, _, _, _, _, _)
RunSeq(items, j, s, i, cap, fl) ==
    IF j > Len(items) THEN << [pos |-> i, cap |-> cap] >>
    ELSE LET rs == Run(items[j], s, i, cap, fl)
         IN Flatten([k \in 1..Len(rs) |->
                        RunSeq(items, j + 1, s, rs[k].pos, rs[k].cap, fl)])
RunRep(n, s, i, cap, fl, count) ==
    LET more ==
            IF n.bounded /\ count >= n.max THEN <<>>
            ELSE LET rs == Run(n.r, s, i, cap, fl)
                 IN Flatten([k \in 1..Len(rs) |->
                               IF rs[k].pos > i
                               THEN RunRep(n, s, rs[k].pos, rs[k].cap, fl, count + 1)
                               ELSE <<>>])
        stop == IF count >= n.min THEN << [pos |-> i, cap |-> cap] >> ELSE <<>>
    IN IF n.greedy THEN more \o stop ELSE stop \o more
\* The same for a repetition of a single character: the run of characters
\* from i that the inner pattern accepts bounds the iteration counts.
RunCharRep(n, s, i, cap, fl) ==
    LET run == CHOOSE k \in 0..(Len(s) - i + 1) :
                   /\ \A j \in 0..(k - 1) : AcceptsChar(n.r, s[i + j], fl)
                   /\ (i + k > Len(s) \/ ~AcceptsChar(n.r, s[i + k], fl))
        most == IF n.bounded /\ n.max < run THEN n.max ELSE run
        counts == most - n.min + 1
    IN IF counts <= 0 THEN <<>>
       ELSE [k \in 1..counts |->
               [pos |-> i + (IF n.greedy THEN most - k + 1 ELSE n.min + k - 1),
                cap |-> cap]]
Run(n, s, i, cap, fl) ==
    LET here == << [pos |-> i, cap |-> cap] >>
        word(k) == k >= 1 /\ k <= Len(s) /\ s[k] \in WordChars
    IN CASE n.t \in {"set", "dot"} ->
                IF i <= Len(s) /\ AcceptsChar(n, s[i], fl)
                THEN << [pos |-> i + 1, cap |-> cap] >> ELSE <<>>
         [] n.t = "seq" -> RunSeq(n.items, 1, s, i, cap, fl)
         [] n.t = "alt" ->
                Flatten([k \in 1..Len(n.items) |-> Run(n.items[k], s, i, cap, fl)])
         [] n.t = "rep" ->
                IF n.r.t \in {"set", "dot"} THEN RunCharRep(n, s, i, cap, fl)
                ELSE RunRep(n, s, i, cap, fl, 0)
         [] n.t = "group" ->
                LET rs == Run(n.r, s, i, cap, fl)
                IN [k \in 1..Len(rs) |-> [pos |-> rs[k].pos, cap |-> <<i, rs[k].pos>>]]
         [] n.t = "lookahead" ->
                IF Run(n.r, s, i, cap, fl) # <<>> THEN here ELSE <<>>
         [] n.t = "wb" -> IF word(i - 1) # word(i) THEN here ELSE <<>>
         [] n.t = "bol" ->
                IF i = 1 \/ (fl.multiline /\ i > 1 /\ s[i - 1] = "\n")
                THEN here ELSE <<>>
         [] n.t = "eol" ->
                IF \/ i = Len(s) + 1
                   \/ i = Len(s) /\ s[i] = "\n"
                   \/ fl.multiline /\ i <= Len(s) /\ s[i] = "\n"
                THEN here ELSE <<>>

\* re.match(pattern, s, flags) is not None
ReMatch(pattern, s, fl) == Run(pattern, s, 1, <<>>, fl) # <<>>

\* re.findall(pattern, s, flags): the non-overlapping matches from left to
\* right, each given by its capturing group, or by the whole match when
\* the pattern has no group.
RECURSIVE FindallFrom(_, _, _, _)
FindallFrom(pattern, s, i, fl) ==
    IF i > Len(s) + 1 THEN <<>>
    ELSE LET rs == Run(pattern, s, i, <<>>, fl)
         IN IF rs = <<>> THEN FindallFrom(pattern, s, i + 1, fl)
            ELSE LET m == Head(rs)
                     found == IF m.cap # <<>> THEN SubSeq(s, m.cap[1], m.cap[2] - 1)
                              ELSE SubSeq(s, i, m.pos - 1)
                 IN <<found>> \o
                    FindallFrom(pattern, s, IF m.pos > i THEN m.pos ELSE i + 1, fl)
Findall(pattern, s, fl) == FindallFrom(pattern, s, 1, fl)

\* ---- PDFProcessor.PATTERNS --------------------------------------------
\* \d{1,3}(?:,\d{3})*\.\d{2}
AmountDigits ==
    Concat(<<Between(DigitChar, 1, 3),
             Star(Concat(<<Lit(","), Between(DigitChar, 3, 3)>>)),
             Lit("."), Between(DigitChar, 2, 2)>>)
\* \d{1,2}[/-]\d{1,2}[/-]\d{2,4}
NumericDate ==
    Concat(<<Between(DigitChar, 1, 2), OneOf({"/", "-"}), Between(DigitChar, 1, 2),
             OneOf({"/", "-"}), Between(DigitChar, 2, 4)>>)

\* PATTERNS as the loops over it see it: one (field type, pattern) pair per
\* pattern, in registration order.
Patterns ==
    << \* (?:Check\s*#?|#)\s*(\d{4,})
       <<"check_number",
         Concat(<<Alt(<<Concat(<<Word(<<"C", "h", "e", "c", "k">>), Star(SpaceChar),
             Opt(Lit("#"))>>),
                        Lit("#")>>),
                  Star(SpaceChar), Group(AtLeast(DigitChar, 4))>>)>>,
       \* (\d{1,2}[/-]\d{1,2}[/-]\d{2,4})
       <<"date", Group(NumericDate)>>,
       \* (\d{4}[/-]\d{1,2}[/-]\d{1,2})
       <<"date",
         Group(Concat(<<Between(DigitChar, 4, 4), OneOf({"/", "-"}),
                        Between(DigitChar, 1, 2), OneOf({"/", "-"}),
                        Between(DigitChar, 1, 2)>>))>>,
       \* (\w{3,9}\s+\d{1,2},?\s+\d{4})
       <<"date",
         Group(Concat(<<Between(WordChar, 3, 9), Plus(SpaceChar), Between(DigitChar, 1, 2),
                        Opt(Lit(",")), Plus(SpaceChar), Between(DigitChar, 4, 4)>>))>>,
       \* (\d{1,2}\s+\w{3,9}\s+\d{4})
       <<"date",
         Group(Concat(<<Between(DigitChar, 1, 2), Plus(SpaceChar), Between(WordChar, 3, 9),
                        Plus(SpaceChar), Between(DigitChar, 4, 4)>>))>>,
       \* \$\s*(\d{1,3}(?:,\d{3})*\.\d{2})
       <<"amount", Concat(<<Lit("$"), Star(SpaceChar), Group(AmountDigits)>>)>>,
       \* (\d{1,3}(?:,\d{3})*\.\d{2})\s*(?:USD|\$)
       <<"amount",
         Concat(<<Group(AmountDigits), Star(SpaceChar),
                  Alt(<<Word(<<"U", "S", "D">>), Lit("$")>>)>>)>>,
       \* Amount:?\s*\$?\s*(\d{1,3}(?:,\d{3})*\.\d{2})
       <<"amount",
         Concat(<<Word(<<"A", "m", "o", "u", "n", "t">>), Opt(Lit(":")), Star(SpaceChar),
             Opt(Lit("$")),
                  Star(SpaceChar), Group(AmountDigits)>>)>>,
       \* (?:\+?1[-.]?)?\(?\d{3}\)?[-.]?\d{3}[-.]?\d{4}
       <<"phone",
         Concat(<<Opt(Concat(<<Opt(Lit("+")), Lit("1"), Opt(OneOf({"-", "."}))>>)),
                  Opt(Lit("(")), Between(DigitChar, 3, 3), Opt(Lit(")")),
                  Opt(OneOf({"-", "."})), Between(DigitChar, 3, 3),
                  Opt(OneOf({"-", "."})), Between(DigitChar, 4, 4)>>)>>,
       \* [a-zA-Z0-9._%+-]+@[a-zA-Z0-9.-]+\.[a-zA-Z]{2,}
       <<"email",
         Concat(<<Plus(OneOf(Letters \cup Digits \cup {".", "_", "%", "+", "-"})),
                  Lit("@"), Plus(OneOf(Letters \cup Digits \cup {".", "-"})), Lit("."),
                  AtLeast(OneOf(Letters), 2)>>)>>,
       \* \b\d{3}-\d{2}-\d{4}\b
       <<"ssn",
         Concat(<<WordBoundary, Between(DigitChar, 3, 3), Lit("-"),
                  Between(DigitChar, 2, 2), Lit("-"), Between(DigitChar, 4, 4),
                  WordBoundary>>)>>,
       \* \b\d{9}\b
       <<"routing_number",
         Concat(<<WordBoundary, Between(DigitChar, 9, 9), WordBoundary>>)>>,
       \* (?:Account|Acct)\s*#?:?\s*(\d{4,})
       <<"account_number",
         Concat(<<Alt(<<Word(<<"A", "c", "c", "o", "u", "n", "t">>),
                        Word(<<"A", "c", "c", "t">>)>>),
                  Star(SpaceChar), Opt(Lit("#")), Opt(Lit(":")), Star(SpaceChar),
                  Group(AtLeast(DigitChar, 4))>>)>>,
       \* (?:Pay to the order of|Payee|Name):?\s*([A-Za-z\s]+?)(?=\n|$|\s{2,})
       <<"name",
         Concat(<<Alt(<<Word(<<"P", "a", "y", " ", "t", "o", " ", "t", "h", "e", " ", "o",
             "r", "d", "e", "r", " ", "o", "f">>),
                        Word(<<"P", "a", "y", "e", "e">>),
                        Word(<<"N", "a", "m", "e">>)>>),
                  Opt(Lit(":")), Star(SpaceChar),
                  Group(LazyAtLeast(OneOf(Letters \cup Whitespace), 1)),
                  Lookahead(Alt(<<Lit("\n"), EndOfLine, AtLeast(SpaceChar, 2)>>))>>)>>,
       \* (?:Address|Street):?\s*(.+?)(?=\n|$)
       <<"address",
         Concat(<<Alt(<<Word(<<"A", "d", "d", "r", "e", "s", "s">>),
                        Word(<<"S", "t", "r", "e", "e", "t">>)>>),
                  Opt(Lit(":")), Star(SpaceChar), Group(LazyAtLeast(Dot, 1)),
                  Lookahead(Alt(<<Lit("\n"), EndOfLine>>))>>)>> >>

\* ======================================================================
\* PDFProcessor
\* ======================================================================

\* What page.extract_text() may give for a page: None, the empty str or text.
CheckText == "Check #12345"
RawPageTexts == {None, "", CheckText}

\* A document as one library sees it: whether opening it raises, the raw text
\* of its pages, and the page whose extract_text() raises (0: none does).
DocViews ==
    UNION { { [open_fails |-> o, raw |-> r, fail_at |-> k] :
                o \in BOOLEAN, k \in 0..n, r \in [1..n -> RawPageTexts] } :
            n \in 0..MaxPages }

\* The sessions registered with the SecurityWrapper (self.sessions).
KnownSessions == {"s1"}
SessionIds == {None, "", "s1", "s2"}

\* Python truthiness of a str argument (None and '' are falsy).
Truthy(s) == s # None /\ s # ""

\* A str built from pieces is empty iff all its pieces are.
StrIsEmpty(pieces) == \A i \in 1..Len(pieces) : pieces[i] = ""

EmptyExtracted == [text |-> <<>>, pages |-> <<>>, page_count |-> 0]

\* page.extract_text() or ''
OrEmpty(raw) == IF raw = None THEN "" ELSE raw

\* _extract_with_pdfplumber / _extract_with_pypdf2: the same loop over two
\* libraries.  An exception leaves what was stored before it was raised.
ExtractText(doc) ==
    IF doc.open_fails THEN EmptyExtracted
    ELSE LET n == Len(doc.raw)
             done == IF doc.fail_at = 0 THEN n ELSE doc.fail_at - 1
             pages == [i \in 1..done |-> OrEmpty(doc.raw[i])]
         IN [text |-> Flatten([i \in 1..done |-> <<pages[i], "\n">>]),
             pages |-> pages,
             page_count |-> n]

PendingResult ==
    [fields |-> <<>>, confidence_sum |-> 0, confidence_n |-> 0, page_count |-> 0,
     status |-> "pending", error_message |-> None]

ProcInit ==
    /\ pc = "idle"
    /\ session_id = None
    /\ result = PendingResult
    /\ status_trace = <<>>
    /\ extracted_data = EmptyExtracted
    /\ primary_out = EmptyExtracted
    /\ fallback_out = EmptyExtracted
    /\ fallback_invoked = FALSE
    /\ matched_pages = <<>>
    /\ raised = None

StoreInit ==
    /\ extraction_history = <<>>
    /\ extraction_revisions = <<>>
    /\ field_extractions = {}
    /\ audit_logs = <<>>
    /\ clock = 0
    /\ next_id = 1
    /\ last_call =
         [op |-> "none", outcome |-> "none", id |-> 0, args |-> <<>>, entries |-> <<>>,
          found |-> FALSE, row |-> <<>>,
          pre |-> [history |-> <<>>, revisions |-> <<>>, rows |-> {}, audit |-> <<>>]]

\* The threads that call the one store instance of a process, none of them
\* in a call.
Threads == {"t1", "t2"}
NoFrame == [fn |-> None]
IdleCall ==
    [op |-> "none", args |-> <<>>, log |-> <<>>, id |-> 0, existing |-> FALSE,
     outcome |-> "none", row |-> <<>>, revisions |-> <<>>, stored |-> <<>>,
     base |-> <<>>, lost |-> 0, ts |-> 0]
TxnInit ==
    /\ lock = None
    /\ tpc = [t \in Threads |-> "idle"]
    /\ calls = [t \in Threads |-> IdleCall]
    /\ conn = [t \in Threads |-> <<>>]

\* ---- the security services and the message handler, before any use ----
\* SecurityConfig (models.py lines 83-86).
temp_file_lifetime_seconds == 3600
memory_limit_mb_default == 500
audit_retention_days == 90
SecondsPerDay == 86400

\* SecureFileHandler.__init__ (empty active_files, worker started) and
\* AuditLogger.__init__ (cleanup thread started, waiting for its first day).
NoFiles == [p \in {} |-> 0]
WorkersIdle ==
    /\ now = 0
    /\ temp_dir = NoFiles
    /\ active_files = NoFiles
    /\ file_worker = [pc |-> "tracked", last |-> "none", runs |-> 1]
    /\ audit_worker = [pc |-> "wait", last |-> "none", runs |-> 0]
    /\ secure_op = [pc |-> "idle", secure_path |-> None]

\* No thread is inside a wrapped call; the import of network_blocker has
\* blocked the network (line 171).
NoWrapped == [pc |-> "idle", was_blocked |-> FALSE, calls |-> 0]
NetIdle ==
    /\ is_blocked = TRUE
    /\ wrapped = [t \in Threads |-> NoWrapped]

\* MemoryManager.__init__, line 22.
MemIdle ==
    /\ memory_limit_mb = memory_limit_mb_default
    /\ contexts = [t \in Threads |-> <<>>]

\* MessageHandler.__init__, lines 37-45.
NoStats == [messages_received |-> 0, messages_processed |-> 0, messages_failed |-> 0]
MsgIdle ==
    /\ sessions = NoFiles
    /\ stats = NoStats
    /\ tasks = <<>>

SecIdle == WorkersIdle /\ NetIdle /\ MemIdle /\ MsgIdle

Init ==
    ProcInit /\ StoreInit /\ TxnInit /\ ops_left = MaxOps /\ frame = NoFrame /\ SecIdle
InitWide ==
    ProcInit /\ StoreInit /\ TxnInit /\ ops_left = MaxWideOps /\ frame = NoFrame /\ SecIdle

\* ---- field matching -------------------------------------------------
\* The field types of PDFProcessor.PATTERNS, in registry order, and those
\* that have location keywords.
FieldTypes ==
    {"check_number", "date", "amount", "phone", "email", "ssn", "routing_number",
     "account_number", "name", "address"}
LocationKeywordTypes ==
    {"check_number", "date", "amount", "name", "account_number", "routing_number"}

\* What _calculate_pattern_confidence looks at in (value, context): whether
\* the context is non-empty, whether a location keyword of the type is
\* within 50 characters of the first occurrence of the value, whether the
\* first line holding the value has a colon or a label keyword, and which
\* branch of the clarity test of the type the value takes (1: the if, 2:
\* the elif, 3: the else).
Features ==
    [context : BOOLEAN, near_keyword : BOOLEAN, structured : BOOLEAN, clarity : 1..3]
NoContext == [context |-> FALSE, near_keyword |-> FALSE, structured |-> FALSE, clarity |-> 1]

\* _calculate_pattern_confidence, in hundredths. First, a scorer that gives
\* every value the default clarity score.
CalculatePatternConfidenceFlatClarity(field_type, f) ==
    LET location_score ==
            IF field_type \in LocationKeywordTypes /\ f.context
            THEN (IF f.near_keyword THEN 20 ELSE 0)
            ELSE 10
        context_score == IF f.context /\ f.structured THEN 20 ELSE 15
    IN 40 + location_score + context_score + 15
CalculatePatternConfidence(field_type, f) ==
    LET pattern_score == 40
        location_score ==
            IF field_type \in LocationKeywordTypes /\ f.context
            THEN (IF f.near_keyword THEN 20 ELSE 0)
            ELSE 10
        context_score == IF f.context /\ f.structured THEN 20 ELSE 15
        clarity_score ==
            CASE field_type = "check_number" ->
                    (IF f.clarity = 1 THEN 20 ELSE IF f.clarity = 2 THEN 15 ELSE 5)
              [] field_type \in {"date", "amount"} ->
                    (IF f.clarity = 1 THEN 20 ELSE IF f.clarity = 2 THEN 18 ELSE 10)
              [] field_type \in {"ssn", "routing_number"} ->
                    (IF f.clarity = 1 THEN 20 ELSE 5)
              [] OTHER -> 15
        total_confidence == pattern_score + location_score + context_score + clarity_score
    IN IF total_confidence < 100 THEN total_confidence ELSE 100

\* location_keywords of _calculate_pattern_confidence
LocationKeywords(field_type) ==
    CASE field_type = "check_number" ->
            <<<<"c", "h", "e", "c", "k">>, <<"n", "u", "m", "b", "e", "r">>, <<"#">>>>
      [] field_type = "date" ->
            <<<<"d", "a", "t", "e">>, <<"d", "a", "t", "e", "d">>, <<"o", "n">>>>
      [] field_type = "amount" ->
            <<<<"a", "m", "o", "u", "n", "t">>, <<"t", "o", "t", "a", "l">>, <<"s", "u",
                "m">>, <<"$">>>>
      [] field_type = "name" ->
            <<<<"p", "a", "y", " ", "t", "o">>, <<"p", "a", "y", "e", "e">>, <<"n", "a", "m",
                "e">>>>
      [] field_type = "account_number" ->
            <<<<"a", "c", "c", "o", "u", "n", "t">>, <<"a", "c", "c", "t">>>>
      [] field_type = "routing_number" ->
            <<<<"r", "o", "u", "t", "i", "n", "g">>, <<"a", "b", "a">>, <<"r", "t", "n">>>>
      [] OTHER -> <<>>

\* The branch of the clarity test of the field type that the value takes.
ClarityBranch(field_type, value) ==
    LET plain == Flags(FALSE, FALSE)
        bare == Strip(SelectSeq(value, LAMBDA c : c # "$"))
        months == {<<"j", "a", "n">>, <<"f", "e", "b">>, <<"m", "a", "r">>,
                   <<"a", "p", "r">>, <<"m", "a", "y">>, <<"j", "u", "n">>,
                   <<"j", "u", "l">>, <<"a", "u", "g">>, <<"s", "e", "p">>,
                   <<"o", "c", "t">>, <<"n", "o", "v">>, <<"d", "e", "c">>}
    IN CASE field_type = "check_number" ->
               (IF Len(value) >= 4 /\ IsDigit(value) THEN 1
                ELSE IF Len(value) >= 3 THEN 2 ELSE 3)
         [] field_type = "date" ->
               (IF ReMatch(NumericDate, value, plain) THEN 1
                ELSE IF \E month \in months : Contains(Lower(value), month) THEN 2
                ELSE 3)
         [] field_type = "amount" ->
               \* ^\d{1,3}(,\d{3})*\.\d{2}$, then ^\d+\.\d{2}$
               (IF /\ Contains(value, <<".">>)
                   /\ ReMatch(Concat(<<StartOfLine, AmountDigits, EndOfLine>>), bare, plain)
                THEN 1
                ELSE IF ReMatch(Concat(<<StartOfLine, Plus(DigitChar), Lit("."),
                                         Between(DigitChar, 2, 2), EndOfLine>>),
                                bare, plain)
                THEN 2 ELSE 3)
         [] field_type = "ssn" ->
               \* ^\d{3}-\d{2}-\d{4}$
               (IF ReMatch(Concat(<<StartOfLine, Between(DigitChar, 3, 3), Lit("-"),
                                    Between(DigitChar, 2, 2), Lit("-"),
                                    Between(DigitChar, 4, 4), EndOfLine>>),
                           value, plain)
                THEN 1 ELSE 2)
         [] field_type = "routing_number" ->
               (IF Len(value) = 9 /\ IsDigit(value) THEN 1 ELSE 2)
         [] OTHER -> 1

\* What _calculate_pattern_confidence finds in (value, context), both given
\* by their characters.
FeaturesOf(field_type, value, context) ==
    LET value_pos == Find(Lower(context), Lower(value))
        nearby_text ==
            Lower(Slice(context, IF value_pos > 50 THEN value_pos - 50 ELSE 0,
                        value_pos + 50))
        keywords == LocationKeywords(field_type)
        labels == <<<<"d", "a", "t", "e">>, <<"a", "m", "o", "u", "n", "t">>,
                    <<"c", "h", "e", "c", "k">>, <<"p", "a", "y">>>>
        line == FirstLineWith(context, value)
    IN [context |-> context # <<>>,
        near_keyword |->
            /\ value_pos >= 0
            /\ \E k \in 1..Len(keywords) : Contains(nearby_text, keywords[k]),
        structured |->
            /\ line # <<>>
            /\ \/ Contains(line[1], <<":">>)
               \/ \E k \in 1..Len(labels) : Contains(Lower(line[1]), labels[k]),
        clarity |-> ClarityBranch(field_type, value)]

\* _calculate_pattern_confidence(field_type, value, context), in hundredths.
PatternConfidence(field_type, value, context) ==
    CalculatePatternConfidence(field_type, FeaturesOf(field_type, value, context))

\* The model names a str by a TLA+ string; Spelling gives its characters.
Spelling ==
    ("" :>
        <<>>) @@
    ("None" :>
        <<"N", "o", "n", "e">>) @@
    ("Check #12345" :>
        <<"C", "h", "e", "c", "k", " ", "#", "1", "2", "3", "4", "5">>) @@
    ("12345" :>
        <<"1", "2", "3", "4", "5">>) @@
    ("$1,234.56" :>
        <<"$", "1", ",", "2", "3", "4", ".", "5", "6">>) @@
    ("Name:\n" :>
        <<"N", "a", "m", "e", ":", "\n">>) @@
    ("Address Main St\nStreet: Main St " :>
        <<"A", "d", "d", "r", "e", "s", "s", " ", "M", "a", "i", "n", " ", "S", "t", "\n",
            "S", "t", "r", "e", "e", "t", ":", " ", "M", "a", "i", "n", " ", "S", "t", " ">>) @@
    ("Street: Main St\nAddress Main St " :>
        <<"S", "t", "r", "e", "e", "t", ":", " ", "M", "a", "i", "n", " ", "S", "t", "\n",
            "A", "d", "d", "r", "e", "s", "s", " ", "M", "a", "i", "n", " ", "S", "t", " ">>) @@
    ("Check Number: 12345\nDate: 12/31/2023\nAmount: $500.00" :>
        <<"C", "h", "e", "c", "k", " ", "N", "u", "m", "b", "e", "r", ":", " ", "1", "2",
            "3", "4", "5", "\n", "D", "a", "t", "e", ":", " ", "1", "2", "/", "3", "1", "/",
                "2", "0", "2", "3", "\n", "A", "m", "o", "u", "n", "t", ":", " ", "$", "5",
                    "0", "0", ".", "0", "0">>) @@
    ("Main St" :>
        <<"M", "a", "i", "n", " ", "S", "t">>) @@
    ("12/31/2023" :>
        <<"1", "2", "/", "3", "1", "/", "2", "0", "2", "3">>) @@
    ("500.00" :>
        <<"5", "0", "0", ".", "0", "0">>) @@
    ("123-45-6789" :>
        <<"1", "2", "3", "-", "4", "5", "-", "6", "7", "8", "9">>) @@
    ("987654321" :>
        <<"9", "8", "7", "6", "5", "4", "3", "2", "1">>) @@
    ("user@example.com" :>
        <<"u", "s", "e", "r", "@", "e", "x", "a", "m", "p", "l", "e", ".", "c", "o", "m">>) @@
    ("(555) 123-4567" :>
        <<"(", "5", "5", "5", ")", " ", "1", "2", "3", "-", "4", "5", "6", "7">>) @@
    ("$1,234.56 paid" :>
        <<"$", "1", ",", "2", "3", "4", ".", "5", "6", " ", "p", "a", "i", "d">>) @@
    ("  #12345 " :>
        <<" ", " ", "#", "1", "2", "3", "4", "5", " ">>) @@
    ("n/a" :>
        <<"n", "/", "a">>) @@
    ("1,234.56" :>
        <<"1", ",", "2", "3", "4", ".", "5", "6">>)
Chars(str) == Spelling[str]
StrOf(chars) == CHOOSE str \in DOMAIN Spelling : Spelling[str] = chars

\* re.findall of pattern k of PATTERNS over a page text: for every match the
\* field type, the stripped value, and
\* _calculate_pattern_confidence(field_type, value, text) of the value as
\* captured.
MatchesOf(k, text) ==
    LET found == Findall(Patterns[k][2], Chars(text), Flags(TRUE, TRUE))
    IN [i \in 1..Len(found) |->
          [name |-> Patterns[k][1], value |-> StrOf(Strip(found[i])),
           confidence |-> PatternConfidence(Patterns[k][1], found[i], Chars(text))]]

\* The matches of every pattern, in registration order.
PatternMatches(text) == Flatten([k \in 1..Len(Patterns) |-> MatchesOf(k, text)])

\* The duplicate removal of _extract_fields_from_text: a dict keyed by
\* (name, value) keeping the first position and the highest confidence.
\* First, a removal that keeps the first entry of a key whatever its confidence.
RECURSIVE DedupKeepFirst(_, _)
DedupKeepFirst(fields, acc) ==
    IF fields = <<>> THEN acc
    ELSE LET f == Head(fields)
         IN IF \E i \in 1..Len(acc) : acc[i].name = f.name /\ acc[i].value = f.value
            THEN DedupKeepFirst(Tail(fields), acc)
            ELSE DedupKeepFirst(Tail(fields), Append(acc, f))
RECURSIVE Dedup(_, _)
Dedup(fields, acc) ==
    IF fields = <<>> THEN acc
    ELSE LET f == Head(fields)
             hit == {i \in 1..Len(acc) : acc[i].name = f.name /\ acc[i].value = f.value}
         IN IF hit = {} THEN Dedup(Tail(fields), Append(acc, f))
            ELSE LET i == CHOOSE j \in hit : TRUE
                 IN IF f.confidence > acc[i].confidence
                    THEN Dedup(Tail(fields), [acc EXCEPT ![i] = f])
                    ELSE Dedup(Tail(fields), acc)

ExtractFieldsFromText(text, page_num) ==
    LET ms == PatternMatches(text)
    IN Dedup([i \in 1..Len(ms) |->
                [name |-> ms[i].name, value |-> ms[i].value,
                 confidence |-> ms[i].confidence, page |-> page_num,
                 method |-> "text"]], <<>>)

\* extract_tables never raises; what it returns is an input here: no table,
\* or one table on page 1 whose only cell is '$1,234.56'. Its accuracy is
\* 0.7 from the pdfplumber fallback, or the accuracy camelot reports for
\* the table, which is a percentage (1.0, or 100.0 for a table camelot is
\* sure of) that extract_tables passes on as it is (line 374).
AmountCell == "$1,234.56"
TableAccuracies == {70, 100, 10000}
TableLists ==
    {<<>>} \cup
    { << [page |-> 1, accuracy |-> acc, data |-> <<AmountCell>>] >> :
         acc \in TableAccuracies }

\* _identify_field_type: the field type of the first pattern that
\* re.match-es the stripped cell (from its start, with re.IGNORECASE only).
IdentifyFieldType(value) ==
    LET hit == {k \in 1..Len(Patterns) :
                   ReMatch(Patterns[k][2], Strip(Chars(value)), Flags(TRUE, FALSE))}
    IN IF hit = {} THEN None
       ELSE Patterns[CHOOSE k \in hit : \A j \in hit : k <= j][1]

\* _calculate_pattern_confidence(field_type, value) of a cell: no context.
CellBaseConfidence(field_type, value) ==
    PatternConfidence(field_type, Chars(value), <<>>)

\* round(base_confidence * (0.8 + 0.2 * accuracy), 2), in hundredths.
AdjustedConfidence(base_confidence, accuracy) ==
    (base_confidence * (8000 + 20 * accuracy) + 5000) \div 10000

\* _extract_fields_from_table
RECURSIVE ExtractFieldsFromTable(_, _)
ExtractFieldsFromTable(table, k) ==
    IF k > Len(table.data) THEN <<>>
    ELSE LET value == table.data[k]
             ft == IdentifyFieldType(value)
             rest == ExtractFieldsFromTable(table, k + 1)
         IN IF \/ Lower(Chars(value)) \in
                     {<<>>, <<"n", "o", "n", "e">>, <<"n", "u", "l", "l">>,
                      <<"n", "/", "a">>}
               \/ ft = None
            THEN rest
            ELSE << [name |-> ft, value |-> StrOf(Strip(Chars(value))),
                     confidence |->
                        AdjustedConfidence(CellBaseConfidence(ft, value), table.accuracy),
                     page |-> table.page, method |-> "table"] >> \o rest

RECURSIVE SumConfidence(_)
SumConfidence(fields) ==
    IF fields = <<>> THEN 0 ELSE Head(fields).confidence + SumConfidence(Tail(fields))

\* ---- process_pdf ------------------------------------------------------
\* process_pdf: with a truthy session_id the call goes through
\* SecurityWrapper.process_with_security, otherwise straight to
\* _process_pdf_internal.
ProcessPdf(sid) ==
    /\ pc = "idle"
    /\ session_id' = sid
    /\ pc' = IF Truthy(sid) THEN "secure" ELSE "internal"
    /\ UNCHANGED <<result, status_trace, extracted_data, primary_out, fallback_out,
                   fallback_invoked, matched_pages, raised>>
    /\ UNCHANGED <<store_vars, txn_vars, frame, sec_vars>>

\* secure_file_operation, entered by process_with_security: an unknown
\* session and a file that fails validate_file both raise ValueError, which
\* nothing between here and the caller of process_pdf catches.
SecureFileOperation(file_valid) ==
    /\ pc = "secure"
    /\ IF session_id \notin KnownSessions
       THEN pc' = "raised" /\ raised' = "ValueError: Invalid session ID"
       ELSE IF ~file_valid
       THEN pc' = "raised" /\ raised' = "ValueError: File validation failed"
       ELSE pc' = "internal" /\ UNCHANGED raised
    /\ UNCHANGED <<session_id, result, status_trace, extracted_data, primary_out,
                   fallback_out, fallback_invoked, matched_pages>>
    /\ UNCHANGED <<store_vars, txn_vars, frame, sec_vars>>

\* _process_pdf_internal, lines 121-125: a fresh pending result that the try
\* block marks processing.
StartInternal ==
    /\ pc = "internal"
    /\ result' = [PendingResult EXCEPT !.status = "processing"]
    /\ status_trace' = <<"pending", "processing">>
    /\ pc' = "primary"
    /\ UNCHANGED <<session_id, extracted_data, primary_out, fallback_out,
                   fallback_invoked, matched_pages, raised>>
    /\ UNCHANGED <<store_vars, txn_vars, frame, sec_vars>>

\* line 128: the primary strategy.
ExtractWithPdfplumber(doc) ==
    /\ pc = "primary"
    /\ extracted_data' = ExtractText(doc)
    /\ primary_out' = ExtractText(doc)
    /\ pc' = "fallback"
    /\ UNCHANGED <<session_id, result, status_trace, fallback_out, fallback_invoked,
                   matched_pages, raised>>
    /\ UNCHANGED <<store_vars, txn_vars, frame, sec_vars>>

\* A fallback test on the per-page texts instead of the concatenated text.
NeedsFallbackPerPage(data) == \A i \in 1..Len(data.pages) : data.pages[i] = ""

\* line 131: if not extracted_data['text']
NeedsFallback(data) == StrIsEmpty(data.text)

\* The fallback called with its return value dropped.
ExtractWithPypdf2Dropped(doc) ==
    /\ pc = "fallback"
    /\ NeedsFallback(extracted_data)
    /\ fallback_out' = ExtractText(doc)
    /\ fallback_invoked' = TRUE
    /\ pc' = "check"
    /\ UNCHANGED <<session_id, result, status_trace, extracted_data, primary_out,
                   matched_pages, raised>>
    /\ UNCHANGED <<store_vars, txn_vars, frame, sec_vars>>

\* lines 131-133: the fallback strategy, run iff the primary gave no text.
ExtractWithPypdf2(doc) ==
    /\ pc = "fallback"
    /\ NeedsFallback(extracted_data)
    /\ extracted_data' = ExtractText(doc)
    /\ fallback_out' = ExtractText(doc)
    /\ fallback_invoked' = TRUE
    /\ pc' = "check"
    /\ UNCHANGED <<session_id, result, status_trace, primary_out, matched_pages, raised>>
    /\ UNCHANGED <<store_vars, txn_vars, frame, sec_vars>>

SkipFallback ==
    /\ pc = "fallback"
    /\ ~NeedsFallback(extracted_data)
    /\ pc' = "check"
    /\ UNCHANGED <<session_id, result, status_trace, extracted_data, primary_out,
                   fallback_out, fallback_invoked, matched_pages, raised>>
    /\ UNCHANGED <<store_vars, txn_vars, frame, sec_vars>>

\* The failure test with the page-count comparison inverted.
BothFailedInverted(data) == StrIsEmpty(data.text) /\ data.page_count # 0

\* line 136: if not extracted_data['text'] and extracted_data['page_count'] == 0
BothFailed(data) == StrIsEmpty(data.text) /\ data.page_count = 0

\* The ValueError of line 137 with no except clause around it.
ExtractionFailedUncaught ==
    /\ pc = "check"
    /\ BothFailed(extracted_data)
    /\ raised' = "ValueError: Unable to extract text from PDF"
    /\ pc' = "raised"
    /\ UNCHANGED <<session_id, result, status_trace, extracted_data, primary_out,
                   fallback_out, fallback_invoked, matched_pages>>
    /\ UNCHANGED <<store_vars, txn_vars, frame, sec_vars>>

\* lines 136-137 and 158-161: the ValueError is caught by the except clause,
\* which makes the result an error result.
ExtractionFailed ==
    /\ pc = "check"
    /\ BothFailed(extracted_data)
    /\ result' = [result EXCEPT !.status = "error",
                                !.error_message = "Unable to extract text from PDF"]
    /\ status_trace' = Append(status_trace, "error")
    /\ pc' = "finish"
    /\ UNCHANGED <<session_id, extracted_data, primary_out, fallback_out,
                   fallback_invoked, matched_pages, raised>>
    /\ UNCHANGED <<store_vars, txn_vars, frame, sec_vars>>

\* lines 139-144: page_count and the fields of every page.
ExtractFields ==
    /\ pc = "check"
    /\ ~BothFailed(extracted_data)
    /\ LET pages == extracted_data.pages
       IN /\ matched_pages' = [i \in 1..Len(pages) |-> <<i, pages[i]>>]
          /\ result' = [result EXCEPT
                !.page_count = extracted_data.page_count,
                !.fields = Flatten([i \in 1..Len(pages) |->
                                      ExtractFieldsFromText(pages[i], i)])]
    /\ pc' = "tables"
    /\ UNCHANGED <<session_id, status_trace, extracted_data, primary_out, fallback_out,
                   fallback_invoked, raised>>
    /\ UNCHANGED <<store_vars, txn_vars, frame, sec_vars>>

\* lines 146-156: the fields of every table, the overall confidence, completed.
\* First, a step that computes the confidence before the table fields are added.
ExtractTablesTextMean(tables) ==
    /\ pc = "tables"
    /\ LET fs == result.fields \o
                 Flatten([i \in 1..Len(tables) |-> ExtractFieldsFromTable(tables[i], 1)])
       IN result' = [result EXCEPT
                !.fields = fs,
                !.confidence_sum = SumConfidence(result.fields),
                !.confidence_n = Len(result.fields),
                !.status = "completed"]
    /\ status_trace' = Append(status_trace, "completed")
    /\ pc' = "finish"
    /\ UNCHANGED <<session_id, extracted_data, primary_out, fallback_out,
                   fallback_invoked, matched_pages, raised>>
    /\ UNCHANGED <<store_vars, txn_vars, frame, sec_vars>>
ExtractTables(tables) ==
    /\ pc = "tables"
    /\ LET fs == result.fields \o
                 Flatten([i \in 1..Len(tables) |-> ExtractFieldsFromTable(tables[i], 1)])
       IN result' = [result EXCEPT
                !.fields = fs,
                !.confidence_sum = SumConfidence(fs),
                !.confidence_n = Len(fs),
                !.status = "completed"]
    /\ status_trace' = Append(status_trace, "completed")
    /\ pc' = "finish"
    /\ UNCHANGED <<session_id, extracted_data, primary_out, fallback_out,
                   fallback_invoked, matched_pages, raised>>
    /\ UNCHANGED <<store_vars, txn_vars, frame, sec_vars>>

\* lines 163-167: the result goes back to the caller (through the context
\* managers of process_with_security, none of which replaces it).
ReturnResult ==
    /\ pc = "finish"
    /\ pc' = "returned"
    /\ UNCHANGED <<session_id, result, status_trace, extracted_data, primary_out,
                   fallback_out, fallback_invoked, matched_pages, raised>>
    /\ UNCHANGED <<store_vars, txn_vars, frame, sec_vars>>

ProcNext ==
    \/ \E sid \in SessionIds : ProcessPdf(sid)
    \/ \E v \in BOOLEAN : SecureFileOperation(v)
    \/ StartInternal
    \/ \E doc \in DocViews : ExtractWithPdfplumber(doc)
    \/ \E doc \in DocViews : ExtractWithPypdf2(doc)
    \/ SkipFallback
    \/ ExtractionFailed
    \/ ExtractFields
    \/ \E t \in TableLists : ExtractTables(t)
    \/ ReturnResult

SpecProcess == Init /\ [][ProcNext]_vars

\* ======================================================================
\* Properties of process_pdf
\* ======================================================================
Terminal == {"completed", "error"}
CallEnded == pc \in {"returned", "raised"}
PastFallbackDecision == pc \in {"check", "tables", "finish", "returned"}
NoTextNoPages(data) == StrIsEmpty(data.text) /\ data.page_count = 0
ReturnedTerminal ==
    /\ pc = "returned"
    /\ result.status \in Terminal
    /\ status_trace = <<"pending", "processing", result.status>>
    /\ (result.status = "error" => result.error_message # None)

\* C1 (as stated): every call of process_pdf, with or without a session
\* identifier, ends by returning a result whose status is completed or error,
\* reached once through pending -> processing -> terminal, a failure being
\* reported in error_message and never raised.
C1_EveryCallReturnsTerminal == CallEnded => ReturnedTerminal

\* C1 (amended): a call without a (truthy) session identifier always ends by
\* returning such a result; a call with one does so too unless the security
\* wrapper rejects the session or the file, in which case ValueError reaches
\* the caller before any processing has started.
C1_TerminalUnlessWrapperRejects ==
    /\ pc = "returned" => ReturnedTerminal
    /\ pc = "raised" =>
         /\ session_id \notin {None, ""}
         /\ status_trace = <<>>
         /\ \/ raised = "ValueError: Invalid session ID" /\ session_id \notin KnownSessions
            \/ raised = "ValueError: File validation failed" /\ session_id \in KnownSessions
C1_Witness ==
    pc = "returned" /\ session_id \in KnownSessions /\ result.status = "error"

\* C2: when both the primary and the fallback strategy give empty text and
\* zero pages, the result returned has status error and the message
\* 'Unable to extract text from PDF'.
C2_BothEmptyIsError ==
    (pc = "returned" /\ NoTextNoPages(primary_out) /\ fallback_invoked
        /\ NoTextNoPages(fallback_out))
    => /\ result.status = "error"
       /\ result.error_message = "Unable to extract text from PDF"
C2_Witness ==
    pc = "returned" /\ NoTextNoPages(primary_out) /\ fallback_invoked
        /\ NoTextNoPages(fallback_out)

\* C3: when the primary strategy gives empty text and no pages and the
\* fallback gives non-empty text, the returned result is completed and its
\* page_count and the pages given to the field matcher are the fallback's.
C3_FallbackPagesUsed ==
    (pc = "returned" /\ StrIsEmpty(primary_out.text) /\ primary_out.pages = <<>>
        /\ ~StrIsEmpty(fallback_out.text))
    => /\ result.status = "completed"
       /\ result.page_count = fallback_out.page_count
       /\ matched_pages = [i \in 1..Len(fallback_out.pages) |-> <<i, fallback_out.pages[i]>>]
C3_Witness ==
    /\ pc = "returned" /\ primary_out.pages = <<>> /\ ~StrIsEmpty(fallback_out.text)
    /\ result.fields # <<>>

\* C4 (as stated): the fallback is invoked whenever every per-page text the
\* primary returns is empty, whatever page count it reports.
C4_FallbackWhenAllPagesEmpty ==
    PastFallbackDecision =>
        ((\A i \in 1..Len(primary_out.pages) : primary_out.pages[i] = "")
            => fallback_invoked)

\* C4 (amended): the fallback is invoked exactly when the primary returns no
\* page at all (so that its concatenated text is the empty str), whatever
\* page count it reports; a primary that returns pages whose texts are all
\* empty does not trigger it.
C4_FallbackIffNoPages ==
    PastFallbackDecision => (fallback_invoked <=> primary_out.pages = <<>>)
C4_Witness ==
    PastFallbackDecision /\ fallback_invoked /\ primary_out.page_count > 0

\* ======================================================================
\* ExtractionHistoryManager
\* ======================================================================
\* AuditActionType (models_audit_enhanced.py) and AuditAction (audit_logger.py).
AuditActionTypes ==
    {"upload", "extract", "edit", "export", "delete", "view", "error", "security",
     "revision", "confidence_change", "validation"}
AuditActions ==
    {"upload", "extract", "edit", "export", "delete", "view", "error", "security"}

FileHashes == {"h1", "h2"}
FieldNames == {"amount"}
Values == {"100.00", "200.00"}
Users == {"user", "system"}

\* The arguments log_extraction is called with: extract events with and
\* without a complete (file_hash, field_name, value) triple and with and
\* without a confidence, a failed extract event, one event of every other
\* action type, and an event whose file_info has no name. file_info['name']
\* is file_name.
LogArgs ==
    { [action |-> "extract", user_id |-> "user", file_hash |-> "h1", field_name |-> "amount",
       value |-> v, confidence |-> c, success |-> TRUE, file_name |-> "a.pdf"] :
         v \in Values, c \in {<<>>, <<80>>} }
    \cup
    { [action |-> "extract", user_id |-> "user", file_hash |-> "h2", field_name |-> "amount",
       value |-> "100.00", confidence |-> <<80>>, success |-> TRUE, file_name |-> "a.pdf"], [action |-> "extract", user_id |-> "user", file_hash |-> None, field_name |-> "amount",
       value |-> "100.00", confidence |-> <<80>>, success |-> TRUE, file_name |-> "a.pdf"],
      [action |-> "extract", user_id |-> "user", file_hash |-> "h1", field_name |-> None,
       value |-> None, confidence |-> <<>>, success |-> TRUE, file_name |-> "a.pdf"],
      [action |-> "extract", user_id |-> "user", file_hash |-> "h1", field_name |-> "amount",
       value |-> "", confidence |-> <<80>>, success |-> TRUE, file_name |-> "a.pdf"],
      [action |-> "extract", user_id |-> "system", file_hash |-> "h1", field_name |-> "amount",
       value |-> None, confidence |-> <<>>, success |-> FALSE, file_name |-> "a.pdf"] }
    \cup
    { [action |-> a, user_id |-> "user", file_hash |-> "h1", field_name |-> "amount",
       value |-> "100.00", confidence |-> <<80>>, success |-> TRUE, file_name |-> "a.pdf"] :
         a \in AuditActionTypes \ {"extract"} }
    \cup
    { [action |-> "upload", user_id |-> "user", file_hash |-> "h2", field_name |-> None,
       value |-> None, confidence |-> <<>>, success |-> TRUE, file_name |-> None] }

\* The arguments add_revision is called with (reason and parent_revision_id
\* are left at their default, None).
RevisionArgs ==
    { [file_hash |-> h, field_name |-> "amount",
       old_value |-> c[1], new_value |-> c[2],
       old_confidence |-> c[3], new_confidence |-> c[4], changed_by |-> "user"] :
         h \in FileHashes,
         c \in {<<"100.00", "200.00", 80, 95>>, <<"200.00", "100.00", 95, 80>>} }

\* The details a caller may pass to log_extraction; add_revision passes the
\* revision's, every other caller here passes none.
NoDetails ==
    [revision_id |-> 0, old_value |-> None, old_confidence |-> <<>>,
     confidence_change |-> <<>>, reason |-> None]

\* _determine_severity
DetermineSeverity(action, success, confidence) ==
    IF ~success THEN "error"
    ELSE IF action \in {"error", "validation"} THEN "warning"
    ELSE IF action \in {"extract", "export"}
         THEN IF confidence # <<>> /\ confidence[1] # 0 /\ confidence[1] < 70
              THEN "warning" ELSE "success"
    ELSE "info"

\* A row of field_extractions for a key, if any.
RowsOf(rows, file_hash, field_name) ==
    {r \in rows : r.file_hash = file_hash /\ r.field_name = field_name}

\* The upsert whose UPDATE also overwrites original_value and
\* original_confidence.
UpdateFieldExtractionOverwrite(rows, id, file_hash, field_name, value, confidence, ts) ==
    IF RowsOf(rows, file_hash, field_name) # {}
    THEN { IF r.file_hash = file_hash /\ r.field_name = field_name
           THEN [r EXCEPT !.current_value = value, !.current_confidence = confidence,
                          !.original_value = value, !.original_confidence = confidence,
                          !.last_modified = ts]
           ELSE r : r \in rows }
    ELSE rows \cup
         { [id |-> id, file_hash |-> file_hash, field_name |-> field_name,
            current_value |-> value, current_confidence |-> confidence,
            original_value |-> value, original_confidence |-> confidence,
            revision_count |-> 0, last_modified |-> ts] }

\* The upsert whose UPDATE resets revision_count.
UpdateFieldExtractionResetCount(rows, id, file_hash, field_name, value, confidence, ts) ==
    IF RowsOf(rows, file_hash, field_name) # {}
    THEN { IF r.file_hash = file_hash /\ r.field_name = field_name
           THEN [r EXCEPT !.current_value = value, !.current_confidence = confidence,
                          !.revision_count = 0, !.last_modified = ts]
           ELSE r : r \in rows }
    ELSE rows \cup
         { [id |-> id, file_hash |-> file_hash, field_name |-> field_name,
            current_value |-> value, current_confidence |-> confidence,
            original_value |-> value, original_confidence |-> confidence,
            revision_count |-> 0, last_modified |-> ts] }

\* The upsert whose UPDATE leaves current_value as it was.
UpdateFieldExtractionKeepValue(rows, id, file_hash, field_name, value, confidence, ts) ==
    IF RowsOf(rows, file_hash, field_name) # {}
    THEN { IF r.file_hash = file_hash /\ r.field_name = field_name
           THEN [r EXCEPT !.current_confidence = confidence, !.last_modified = ts]
           ELSE r : r \in rows }
    ELSE rows \cup
         { [id |-> id, file_hash |-> file_hash, field_name |-> field_name,
            current_value |-> value, current_confidence |-> confidence,
            original_value |-> value, original_confidence |-> confidence,
            revision_count |-> 0, last_modified |-> ts] }

\* _update_field_extraction: update the row of the key if there is one,
\* insert a row with revision_count 0 otherwise.
UpdateFieldExtraction(rows, id, file_hash, field_name, value, confidence, ts) ==
    IF RowsOf(rows, file_hash, field_name) # {}
    THEN { IF r.file_hash = file_hash /\ r.field_name = field_name
           THEN [r EXCEPT !.current_value = value, !.current_confidence = confidence,
                          !.last_modified = ts]
           ELSE r : r \in rows }
    ELSE rows \cup
         { [id |-> id, file_hash |-> file_hash, field_name |-> field_name,
            current_value |-> value, current_confidence |-> confidence,
            original_value |-> value, original_confidence |-> confidence,
            revision_count |-> 0, last_modified |-> ts] }

\* line 241: action == EXTRACT and file_hash and field_name and value
TracksField(a) ==
    a.action = "extract" /\ Truthy(a.file_hash) /\ Truthy(a.field_name) /\ Truthy(a.value)

\* line 250: AuditAction(action) raises ValueError for a value AuditAction
\* does not have.
AuditActionOf(action) == IF action \in AuditActions THEN action ELSE None

\* An insert that replaces the earlier events of the same file and action.
InsertOrReplaceEvent(history, event) ==
    Append(SelectSeq(history, LAMBDA e : ~(e.file_hash = event.file_hash
                                           /\ e.action = event.action)),
           event)

\* INSERT INTO extraction_history (lines 209-225)
InsertEvent(history, event) == Append(history, event)

\* The row log_extraction inserts into extraction_history (lines 209-225).
HistoryEvent(log_id, a, details, ts) ==
    [id |-> log_id, timestamp |-> ts, action |-> a.action,
     user_id |-> a.user_id, file_hash |-> a.file_hash,
     file_name |-> a.file_name,
     field_name |-> a.field_name, value |-> a.value,
     confidence |-> a.confidence, details |-> details,
     success |-> a.success,
     severity |-> DetermineSeverity(a.action, a.success, a.confidence)]

\* log_extraction on the tables st, with uuid4() values from st.next_id on
\* and datetime.now() = ts: the event is inserted and committed (lines
\* 206-246) and then handed to the base audit logger (lines 248-259).
LogExtractionOn(st, a, details, ts) ==
    LET log_id == st.next_id
        event == HistoryEvent(log_id, a, details, ts)
        tracked == TracksField(a)
        rows == IF tracked
                THEN UpdateFieldExtraction(st.rows, log_id + 1, a.file_hash, a.field_name,
                                           a.value, a.confidence, ts)
                ELSE st.rows
        ids == IF tracked /\ RowsOf(st.rows, a.file_hash, a.field_name) = {}
               THEN log_id + 2 ELSE log_id + 1
        base == AuditActionOf(a.action)
    IN [history |-> InsertEvent(st.history, event),
        rows |-> rows,
        audit |-> IF base = None THEN st.audit
                  ELSE Append(st.audit, [id |-> ids, timestamp |-> ts, action |-> base,
                                         user_id |-> a.user_id, file_hash |-> a.file_hash,
                                         success |-> a.success]),
        next_id |-> IF base = None THEN ids ELSE ids + 1,
        outcome |-> IF base = None THEN "ValueError" ELSE "returned",
        id |-> log_id]

Tables ==
    [history |-> extraction_history, rows |-> field_extractions, audit |-> audit_logs,
     next_id |-> next_id]

PreState ==
    [history |-> extraction_history, revisions |-> extraction_revisions,
     rows |-> field_extractions, audit |-> audit_logs]

NoCall ==
    [op |-> "none", outcome |-> "none", id |-> 0, args |-> <<>>, entries |-> <<>>,
     found |-> FALSE, row |-> <<>>,
     pre |-> [history |-> <<>>, revisions |-> <<>>, rows |-> {}, audit |-> <<>>]]

\* log_extraction
LogExtraction(a, ts) ==
    /\ ops_left > 0
    /\ ts \in {clock, clock + 1}
    /\ LET r == LogExtractionOn(Tables, a, NoDetails, ts)
       IN /\ extraction_history' = r.history
          /\ field_extractions' = r.rows
          /\ audit_logs' = r.audit
          /\ next_id' = r.next_id
          /\ last_call' = [NoCall EXCEPT !.op = "log_extraction", !.outcome = r.outcome,
                                         !.id = r.id, !.args = a, !.pre = PreState]
    /\ clock' = ts
    /\ ops_left' = ops_left - 1
    /\ UNCHANGED extraction_revisions
    /\ UNCHANGED <<proc_vars, txn_vars, frame, sec_vars>>

\* The UPDATE without its revision_count = revision_count + 1.
ApplyRevisionNoCount(rows, a, ts) ==
    { IF r.file_hash = a.file_hash /\ r.field_name = a.field_name
      THEN [r EXCEPT !.current_value = a.new_value,
                     !.current_confidence = <<a.new_confidence>>,
                     !.last_modified = ts]
      ELSE r : r \in rows }

\* The UPDATE setting current_value to the old value.
ApplyRevisionOldValue(rows, a, ts) ==
    { IF r.file_hash = a.file_hash /\ r.field_name = a.field_name
      THEN [r EXCEPT !.current_value = a.old_value,
                     !.current_confidence = <<a.new_confidence>>,
                     !.revision_count = r.revision_count + 1,
                     !.last_modified = ts]
      ELSE r : r \in rows }

\* The UPDATE of add_revision, lines 299-304.
ApplyRevision(rows, a, ts) ==
    { IF r.file_hash = a.file_hash /\ r.field_name = a.field_name
      THEN [r EXCEPT !.current_value = a.new_value,
                     !.current_confidence = <<a.new_confidence>>,
                     !.revision_count = r.revision_count + 1,
                     !.last_modified = ts]
      ELSE r : r \in rows }

\* add_revision: the revision is inserted and the row of the key updated in
\* one transaction (lines 279-306); then the revision is logged as a
\* history event by log_extraction (lines 309-323), whose outcome is the
\* outcome of the call.
AddRevision(a, ts, te) ==
    /\ ops_left > 0
    /\ ts \in {clock, clock + 1} /\ te \in {ts, ts + 1}
    /\ LET revision_id == next_id
           revision == [revision_id |-> revision_id, parent_revision_id |-> None,
                        timestamp |-> ts, file_hash |-> a.file_hash,
                        field_name |-> a.field_name, old_value |-> a.old_value,
                        new_value |-> a.new_value, old_confidence |-> <<a.old_confidence>>,
                        new_confidence |-> <<a.new_confidence>>,
                        changed_by |-> a.changed_by, reason |-> None]
           st == [Tables EXCEPT !.rows = ApplyRevision(field_extractions, a, ts),
                                !.next_id = next_id + 1]
           r == LogExtractionOn(st,
                    [action |-> "revision", user_id |-> a.changed_by,
                     file_hash |-> a.file_hash, field_name |-> a.field_name,
                     value |-> a.new_value, confidence |-> <<a.new_confidence>>,
                     success |-> TRUE, file_name |-> None],
                    [revision_id |-> revision_id, old_value |-> a.old_value,
                     old_confidence |-> <<a.old_confidence>>,
                     confidence_change |-> <<a.new_confidence - a.old_confidence>>,
                     reason |-> None],
                    te)
       IN /\ extraction_revisions' = Append(extraction_revisions, revision)
          /\ extraction_history' = r.history
          /\ field_extractions' = r.rows
          /\ audit_logs' = r.audit
          /\ next_id' = r.next_id
          /\ last_call' = [NoCall EXCEPT !.op = "add_revision", !.outcome = r.outcome,
                                         !.id = revision_id, !.args = a, !.pre = PreState]
    /\ clock' = te
    /\ ops_left' = ops_left - 1
    /\ UNCHANGED <<proc_vars, txn_vars, frame, sec_vars>>

\* ---- reads ------------------------------------------------------------
DefaultLimit == 100

NoFilters ==
    [user_id |-> None, file_hash |-> None, actions |-> {}, success_only |-> <<>>,
     start_date |-> <<>>, end_date |-> <<>>, limit |-> DefaultLimit, offset |-> 0]

\* The AuditSearchFilters search_history is called with: unfiltered pages,
\* and every combination of a few filters with the default page.
SearchFilters ==
    { [NoFilters EXCEPT !.limit = l, !.offset = o] : l \in {1, DefaultLimit}, o \in {0, 1} }
    \cup
    { [NoFilters EXCEPT !.user_id = u, !.file_hash = h, !.actions = as,
                        !.success_only = so, !.start_date = sd[1], !.end_date = sd[2]] :
        u \in {None, "user"}, h \in {None, "h1"}, as \in {{}, {"extract", "export"}},
        so \in {<<>>, <<TRUE>>}, sd \in {<< <<>>, <<>> >>, << <<1>>, <<1>> >>} }

\* The WHERE clause search_history builds (lines 329-360).
Matches(e, f) ==
    /\ Truthy(f.user_id) => e.user_id = f.user_id
    /\ Truthy(f.file_hash) => e.file_hash = f.file_hash
    /\ f.actions # {} => e.action \in f.actions
    /\ f.success_only # <<>> => e.success = f.success_only[1]
    /\ f.start_date # <<>> => e.timestamp >= f.start_date[1]
    /\ f.end_date # <<>> => e.timestamp <= f.end_date[1]

\* ORDER BY timestamp with the direction ignored (always ascending).
OrdersAscending(table, idx, descending) ==
    { p \in [1..Cardinality(idx) -> idx] :
        /\ \A i, j \in 1..Cardinality(idx) : i # j => p[i] # p[j]
        /\ \A i, j \in 1..Cardinality(idx) :
             i < j => table[p[i]].timestamp <= table[p[j]].timestamp }

\* The orders in which a query may return the rows at the positions idx of a
\* table: every order that is sorted by timestamp (descending or ascending);
\* SQL leaves the order of rows with equal timestamps open.
OrdersByTimestamp(table, idx, descending) ==
    { p \in [1..Cardinality(idx) -> idx] :
        /\ \A i, j \in 1..Cardinality(idx) : i # j => p[i] # p[j]
        /\ \A i, j \in 1..Cardinality(idx) :
             i < j => IF descending
                      THEN table[p[i]].timestamp >= table[p[j]].timestamp
                      ELSE table[p[i]].timestamp <= table[p[j]].timestamp }

\* LIMIT ? OFFSET ?
Page(rows, limit, offset) ==
    SubSeq(rows, offset + 1, IF offset + limit < Len(rows) THEN offset + limit ELSE Len(rows))

\* The ExtractionHistoryEntry built from a row of extraction_history (lines
\* 376-397).
EntryOf(e) ==
    [timestamp |-> e.timestamp,
     file_name |-> IF Truthy(e.file_name) THEN e.file_name ELSE "Unknown",
     file_hash |-> IF Truthy(e.file_hash) THEN e.file_hash ELSE "",
     action |-> e.action,
     field_name |-> e.field_name,
     old_value |-> e.details.old_value,
     new_value |-> IF Truthy(e.value) THEN e.value ELSE None,
     confidence |-> e.confidence,
     confidence_change |-> e.details.confidence_change,
     success |-> e.success]

\* search_history
SearchHistory(f) ==
    /\ ops_left > 0
    /\ LET idx == {i \in 1..Len(extraction_history) : Matches(extraction_history[i], f)}
       IN \E p \in OrdersByTimestamp(extraction_history, idx, TRUE) :
            last_call' =
              [NoCall EXCEPT
                 !.op = "search_history", !.outcome = "returned", !.args = f,
                 !.entries = Page([i \in 1..Len(p) |-> EntryOf(extraction_history[p[i]])],
                                  f.limit, f.offset),
                 !.pre = PreState]
    /\ ops_left' = ops_left - 1
    /\ UNCHANGED <<extraction_history, extraction_revisions, field_extractions,
                   audit_logs, clock, next_id>>
    /\ UNCHANGED <<proc_vars, txn_vars, frame, sec_vars>>

\* get_field_history: None when the key has no row; otherwise the row and
\* the revisions of the key, oldest first.  ExtractionFieldHistory declares
\* current_confidence and original_confidence as float, so a row that holds
\* NULL in one of them fails its validation.
GetFieldHistory(file_hash, field_name) ==
    /\ ops_left > 0
    /\ LET rows == RowsOf(field_extractions, file_hash, field_name)
           idx == {i \in 1..Len(extraction_revisions) :
                     /\ extraction_revisions[i].file_hash = file_hash
                     /\ extraction_revisions[i].field_name = field_name}
           call == [NoCall EXCEPT !.op = "get_field_history",
                                  !.args = [file_hash |-> file_hash, field_name |-> field_name],
                                  !.pre = PreState]
       IN IF rows = {}
          THEN last_call' = [call EXCEPT !.outcome = "returned", !.found = FALSE]
          ELSE \E row \in rows :
               \E p \in OrdersByTimestamp(extraction_revisions, idx, FALSE) :
                 IF row.current_confidence = <<>> \/ row.original_confidence = <<>>
                 THEN last_call' = [call EXCEPT !.outcome = "ValidationError"]
                 ELSE last_call' =
                        [call EXCEPT !.outcome = "returned", !.found = TRUE, !.row = row,
                                     !.entries = [i \in 1..Len(p) |-> extraction_revisions[p[i]]]]
    /\ ops_left' = ops_left - 1
    /\ UNCHANGED <<extraction_history, extraction_revisions, field_extractions,
                   audit_logs, clock, next_id>>
    /\ UNCHANGED <<proc_vars, txn_vars, frame, sec_vars>>

\* The sums get_file_summary accumulates over the rows of a file (lines
\* 484-488): current_confidence where it is truthy, and revision_count.
RECURSIVE TotalConfidence(_)
TotalConfidence(rows) ==
    IF rows = {} THEN 0
    ELSE LET r == CHOOSE x \in rows : TRUE
         IN (IF r.current_confidence # <<>> THEN r.current_confidence[1] ELSE 0)
            + TotalConfidence(rows \ {r})
RECURSIVE TotalRevisions(_)
TotalRevisions(rows) ==
    IF rows = {} THEN 0
    ELSE LET r == CHOOSE x \in rows : TRUE
         IN r.revision_count + TotalRevisions(rows \ {r})

\* get_file_summary: None without an event of the hash (lines 451-459); the
\* statistics are those of the extract events of the hash (462-470), whose
\* MAX(timestamp) is NULL when there is none, so that datetime.fromtimestamp
\* raises TypeError (line 500); file_name is that of an earliest event of
\* the hash and FileExtractionSummary rejects None for it (line 498).
GetFileSummary(file_hash) ==
    /\ ops_left > 0
    /\ LET events == {i \in 1..Len(extraction_history) :
                        extraction_history[i].file_hash = file_hash}
           extracts == {i \in events : extraction_history[i].action = "extract"}
           earliest == {i \in events : \A j \in events :
                           extraction_history[i].timestamp
                              <= extraction_history[j].timestamp}
           fields == {r \in field_extractions : r.file_hash = file_hash}
           c == [NoCall EXCEPT !.op = "get_file_summary",
                               !.args = [file_hash |-> file_hash], !.pre = PreState]
       IN IF events = {}
          THEN last_call' = [c EXCEPT !.outcome = "returned", !.found = FALSE]
          ELSE IF extracts = {}
          THEN last_call' = [c EXCEPT !.outcome = "TypeError"]
          ELSE \E first \in earliest :
                 IF extraction_history[first].file_name = None
                 THEN last_call' = [c EXCEPT !.outcome = "ValidationError"]
                 ELSE last_call' =
                        [c EXCEPT
                           !.outcome = "returned", !.found = TRUE,
                           !.row =
                             [file_hash |-> file_hash,
                              file_name |-> extraction_history[first].file_name,
                              total_extractions |-> Cardinality(extracts),
                              successful_extractions |->
                                 Cardinality({i \in extracts :
                                                 extraction_history[i].success}),
                              failed_extractions |->
                                 Cardinality({i \in extracts :
                                                 ~extraction_history[i].success}),
                              average_confidence |->
                                 IF fields = {} THEN 0
                                 ELSE TotalConfidence(fields) \div Cardinality(fields),
                              fields_extracted |-> {r.field_name : r \in fields},
                              revision_count |-> TotalRevisions(fields),
                              export_count |->
                                 Cardinality({i \in events :
                                    extraction_history[i].action = "export"})]]
    /\ ops_left' = ops_left - 1
    /\ UNCHANGED <<extraction_history, extraction_revisions, field_extractions,
                   audit_logs, clock, next_id>>
    /\ UNCHANGED <<proc_vars, txn_vars, frame, sec_vars>>

\* datetime.now() does not go back, and two readings may be equal: a call
\* reads the time of the previous reading or the next tick.
Times == 0..(2 * (MaxOps + MaxWideOps))

\* The calls of the deep runs: the events and revisions of two keys.
KeyLogArgs ==
    {a \in LogArgs :
        \/ a.action = "extract" /\ a.file_hash = "h1" /\ a.confidence # <<>> /\ a.success
        \/ a.action = "extract" /\ a.file_hash = "h1" /\ a.value = "200.00"
        \/ a.action = "extract" /\ a.file_hash = "h2"
        \/ a.action \in {"export", "revision"}}
KeyFilters ==
    {f \in SearchFilters :
        /\ f.user_id = None /\ f.success_only = <<>> /\ f.start_date = <<>>
        /\ f.actions = {} \/ f.file_hash = "h1"}

StoreNext ==
    \/ \E a \in KeyLogArgs, ts \in Times : LogExtraction(a, ts)
    \/ \E a \in RevisionArgs, ts \in Times : AddRevision(a, ts, ts)
    \/ \E f \in KeyFilters : SearchHistory(f)
    \/ \E h \in FileHashes, n \in FieldNames : GetFieldHistory(h, n)

\* The calls of the wide runs: every action type and every filter.
WideNext ==
    \/ \E a \in LogArgs, ts \in Times : LogExtraction(a, ts)
    \/ \E a \in RevisionArgs, ts \in Times, te \in Times : AddRevision(a, ts, te)
    \/ \E f \in SearchFilters : SearchHistory(f)
    \/ \E h \in FileHashes, n \in FieldNames : GetFieldHistory(h, n)
    \/ \E h \in FileHashes : GetFileSummary(h)

SpecStore == Init /\ [][StoreNext]_vars
SpecStoreWide == InitWide /\ [][WideNext]_vars

\* ======================================================================
\* Properties of the history store
\* ======================================================================
Writes == {"log_extraction", "add_revision"}
LastEvent == extraction_history[Len(extraction_history)]
RevisionsOf(file_hash, field_name) ==
    {i \in 1..Len(extraction_revisions) :
        /\ extraction_revisions[i].file_hash = file_hash
        /\ extraction_revisions[i].field_name = field_name}
SortedByTimestamp(rows, descending) ==
    \A i, j \in 1..Len(rows) :
        i < j => IF descending THEN rows[i].timestamp >= rows[j].timestamp
                 ELSE rows[i].timestamp <= rows[j].timestamp
\* rows holds exactly the elements of table at the positions idx, each once.
SameRecords(rows, table, idx) ==
    /\ Len(rows) = Cardinality(idx)
    /\ \E p \in [1..Len(rows) -> idx] :
         /\ \A i, j \in 1..Len(rows) : i # j => p[i] # p[j]
         /\ \A i \in 1..Len(rows) : rows[i] = table[p[i]]

\* C5 (as stated): every add_revision call returns normally with a fresh
\* revision id, having appended exactly one revision and exactly one history
\* event of action revision whose details carry new_confidence -
\* old_confidence.
C5_AddRevisionReturns ==
    last_call.op = "add_revision" =>
        /\ last_call.outcome = "returned"
        /\ \A i \in 1..Len(last_call.pre.revisions) :
             last_call.pre.revisions[i].revision_id # last_call.id
        /\ Len(extraction_revisions) = Len(last_call.pre.revisions) + 1
        /\ Len(extraction_history) = Len(last_call.pre.history) + 1
        /\ LastEvent.action = "revision"
        /\ LastEvent.details.confidence_change =
             <<last_call.args.new_confidence - last_call.args.old_confidence>>

\* C6 (as stated): add_revision for any key, followed by get_field_history
\* for the key, gives a field state with current_value = new_value,
\* current_confidence = new_confidence and revision_count one greater than
\* before the add_revision call.
RevisionThenRead ==
    /\ last_call.op = "add_revision"
    /\ last_call'.op = "get_field_history"
    /\ last_call'.args.file_hash = last_call.args.file_hash
    /\ last_call'.args.field_name = last_call.args.field_name
ReadShowsRevision ==
    /\ last_call'.outcome = "returned"
    /\ last_call'.found
    /\ last_call'.row.current_value = last_call.args.new_value
    /\ last_call'.row.current_confidence = <<last_call.args.new_confidence>>
    /\ \A r \in RowsOf(last_call.pre.rows, last_call.args.file_hash,
                       last_call.args.field_name) :
         last_call'.row.revision_count = r.revision_count + 1
C8_LogsAppendOnly ==
    [][/\ Len(extraction_history') >= Len(extraction_history)
       /\ SubSeq(extraction_history', 1, Len(extraction_history)) = extraction_history
       /\ Len(extraction_revisions') >= Len(extraction_revisions)
       /\ SubSeq(extraction_revisions', 1, Len(extraction_revisions)) = extraction_revisions
      ]_vars
C8_Witness ==
    /\ last_call.op \in Writes
    /\ Len(last_call.pre.history) >= 2
    /\ Len(last_call.pre.revisions) >= 1
    /\ Len(extraction_history) = 3

\* C9: search_history without filters, from offset 0 and with a limit of at
\* least the number of stored events, returns every stored event once (as an
\* ExtractionHistoryEntry), those emitted by add_revision included, ordered
\* newest-first by timestamp.
Unfiltered(f) ==
    /\ f.user_id = None /\ f.file_hash = None /\ f.actions = {}
    /\ f.success_only = <<>> /\ f.start_date = <<>> /\ f.end_date = <<>>
C9_SearchReturnsAll ==
    (/\ last_call.op = "search_history"
     /\ Unfiltered(last_call.args)
     /\ last_call.args.offset = 0
     /\ last_call.args.limit >= Len(extraction_history))
    => /\ SameRecords(last_call.entries,
                      [i \in 1..Len(extraction_history) |-> EntryOf(extraction_history[i])],
                      1..Len(extraction_history))
       /\ SortedByTimestamp(last_call.entries, TRUE)
C9_Witness ==
    /\ last_call.op = "search_history" /\ Unfiltered(last_call.args)
    /\ last_call.args.offset = 0 /\ last_call.args.limit >= Len(extraction_history)
    /\ Len(last_call.entries) = 2
    /\ last_call.entries[1].timestamp > last_call.entries[2].timestamp
    /\ \E i \in 1..2 : last_call.entries[i].action = "revision"

\* C10 (as stated): for every action type, log_extraction appends exactly
\* one history event and returns its event id.
C10_EveryActionTypeLogged ==
    last_call.op = "log_extraction" =>
        /\ last_call.outcome = "returned"
        /\ Len(extraction_history) = Len(last_call.pre.history) + 1
        /\ LastEvent.id = last_call.id
        /\ LastEvent.action = last_call.args.action

\* The history events that make log_extraction upsert the row of a key:
\* extract events with a non-empty file hash, field name and value.
TrackingEvents(history, file_hash, field_name) ==
    {i \in 1..Len(history) :
        /\ TracksField(history[i])
        /\ history[i].file_hash = file_hash /\ history[i].field_name = field_name}
FirstTrackingEvent(history, file_hash, field_name) ==
    history[CHOOSE i \in TrackingEvents(history, file_hash, field_name) :
                \A j \in TrackingEvents(history, file_hash, field_name) : i <= j]
LogExtractionStep ==
    last_call'.op = "log_extraction" /\ ops_left' = ops_left - 1

C12_LogExtractionKeepsCount ==
    [][LogExtractionStep =>
         /\ \A r \in field_extractions :
              \E q \in field_extractions' :
                  /\ q = [r EXCEPT !.current_value = q.current_value,
                                   !.current_confidence = q.current_confidence,
                                   !.last_modified = q.last_modified]
                  /\ q.revision_count = r.revision_count
                  /\ (~(TracksField(last_call'.args)
                        /\ r.file_hash = last_call'.args.file_hash
                        /\ r.field_name = last_call'.args.field_name) => q = r)
         /\ \A q \in field_extractions' :
              RowsOf(field_extractions, q.file_hash, q.field_name) = {}
                  => q.revision_count = 0
      ]_vars
C12_Witness ==
    /\ last_call.op = "log_extraction" /\ last_call.outcome = "returned"
    /\ TracksField(last_call.args)
    /\ \E r \in last_call.pre.rows, q \in field_extractions :
         /\ r.file_hash = last_call.args.file_hash /\ q.file_hash = r.file_hash
         /\ r.field_name = q.field_name
         /\ r.revision_count = 1 /\ q.revision_count = 1
         /\ q.current_value = last_call.args.value
         /\ q.current_value # r.current_value

\* C13 (as stated): every history event of action revision has exactly one
\* revision record (the one its details name) and every revision record
\* exactly one such event, whatever calls produced the state.
C13_RevisionEventsMatchRecords ==
    /\ \A i \in 1..Len(extraction_history) :
         extraction_history[i].action = "revision" =>
            Cardinality({j \in 1..Len(extraction_revisions) :
                extraction_revisions[j].revision_id
                    = extraction_history[i].details.revision_id}) = 1
    /\ \A j \in 1..Len(extraction_revisions) :
         Cardinality({i \in 1..Len(extraction_history) :
                /\ extraction_history[i].action = "revision"
                /\ extraction_history[i].details.revision_id
                     = extraction_revisions[j].revision_id}) = 1

\* What C14 says of the rows after a log_extraction of an extract event:
\* one row for the event's key, holding the event's value and confidence,
\* and every row of another key as it was before the call.
ExtractUpsertedRow ==
    LET a == last_call.args
    IN /\ Cardinality(RowsOf(field_extractions, a.file_hash, a.field_name)) = 1
       /\ \A r \in RowsOf(field_extractions, a.file_hash, a.field_name) :
            r.current_value = a.value /\ r.current_confidence = a.confidence
       /\ {r \in field_extractions :
              ~(r.file_hash = a.file_hash /\ r.field_name = a.field_name)}
          = {r \in last_call.pre.rows :
              ~(r.file_hash = a.file_hash /\ r.field_name = a.field_name)}

\* C14 (as stated): after log_extraction of an extract event that carries a
\* file hash, a field name and a value, exactly one row exists for the key,
\* with the event's value and confidence, and the other rows are unchanged.
C14_ExtractUpsertsRow ==
    (/\ last_call.op = "log_extraction"
     /\ last_call.args.action = "extract"
     /\ last_call.args.file_hash # None
     /\ last_call.args.field_name # None
     /\ last_call.args.value # None)
    => ExtractUpsertedRow

\* C14 (amended): the same, for an extract event whose file hash, field name
\* and value are all non-empty strings; an extract event with an empty one
\* is logged without touching field_extractions.
C14_NonEmptyExtractUpsertsRow ==
    /\ (last_call.op = "log_extraction" /\ TracksField(last_call.args))
          => ExtractUpsertedRow
    /\ (last_call.op = "log_extraction" /\ ~TracksField(last_call.args))
          => field_extractions = last_call.pre.rows
C14_Witness ==
    /\ last_call.op = "log_extraction" /\ TracksField(last_call.args)
    /\ ExtractUpsertedRow
    /\ Cardinality(last_call.pre.rows) = 2
    /\ \E r \in last_call.pre.rows :
         /\ r.file_hash = last_call.args.file_hash
         /\ r.current_value # last_call.args.value

\* ======================================================================
\* Concurrent calls on one ExtractionHistoryManager
\* ======================================================================
\* Each thread runs one call at a time, statement by statement. A call
\* that writes takes self._lock, opens its own connection, executes its
\* statements in the transaction sqlite3 opens at the first of them, commits,
\* closes the connection and releases the lock. The tables are the committed
\* database; conn[t] holds the writes of the open transaction of thread t,
\* which no other connection sees before the commit. A writing call reads
\* datetime.now() once, as clock, before it takes the lock (lines 178, 277).
\* The threads start on a new store or on one in which an earlier call has
\* logged the extraction of h1/amount.
InitialStores ==
    LET empty == [history |-> <<>>, rows |-> {}, audit |-> <<>>, next_id |-> 1,
                  outcome |-> "none", id |-> 0]
        first == CHOOSE a \in LogArgs :
                    /\ a.action = "extract" /\ a.file_hash = "h1" /\ a.success
                    /\ a.value = "100.00" /\ a.confidence = <<80>>
    IN {empty, LogExtractionOn(empty, first, NoDetails, 0)}
InitThreads ==
    /\ ProcInit /\ TxnInit /\ ops_left = MaxCalls /\ frame = NoFrame /\ SecIdle
    /\ extraction_revisions = <<>> /\ clock = 0 /\ last_call = NoCall
    /\ \E st \in InitialStores :
         /\ extraction_history = st.history
         /\ field_extractions = st.rows
         /\ audit_logs = st.audit
         /\ next_id = st.next_id

Committed ==
    [history |-> extraction_history, revisions |-> extraction_revisions,
     rows |-> field_extractions]

\* The effect of one write statement on the tables it is executed against.
ApplyWrite(db, w) ==
    CASE w.kind = "event" -> [db EXCEPT !.history = InsertEvent(db.history, w.rec)]
      [] w.kind = "revision" -> [db EXCEPT !.revisions = Append(db.revisions, w.rec)]
      [] w.kind = "revise" -> [db EXCEPT !.rows = ApplyRevision(db.rows, w.rec, w.ts)]
      [] w.kind = "upsert" ->
           [db EXCEPT !.rows =
               IF w.existing
               THEN UpdateFieldExtraction(db.rows, w.id, w.rec.file_hash, w.rec.field_name,
                                          w.rec.value, w.rec.confidence, w.ts)
               ELSE db.rows \cup
                    UpdateFieldExtraction({}, w.id, w.rec.file_hash, w.rec.field_name,
                                          w.rec.value, w.rec.confidence, w.ts)]

RECURSIVE ApplyWrites(_, _)
ApplyWrites(db, ws) ==
    IF ws = <<>> THEN db ELSE ApplyWrites(ApplyWrite(db, Head(ws)), Tail(ws))

\* What the connection of thread t reads: the committed database and its
\* own uncommitted writes.
View(t) == ApplyWrites(Committed, conn[t])

\* The calls the threads make.
ThreadLogArgs ==
    {a \in LogArgs :
        /\ a.action = "extract" /\ a.file_hash = "h1" /\ a.success
        /\ \/ a.value = "100.00" /\ a.confidence = <<80>>
           \/ a.value = "200.00" /\ a.confidence = <<>>}
ThreadRevisionArgs ==
    {a \in RevisionArgs : a.file_hash = "h1" /\ a.new_value = "200.00"}

\* A lock that lets every thread in.
LockAlwaysFree == TRUE

\* with self._lock: a thread enters when no thread holds the lock.
LockFree == lock = None

\* log_extraction, lines 176-204: log_id and the event are prepared, with
\* the timestamp read at line 178.
StartLogExtraction(t, a) ==
    /\ ops_left > 0 /\ tpc[t] = "idle"
    /\ calls' = [calls EXCEPT ![t] =
                  [IdleCall EXCEPT !.op = "log_extraction", !.args = a, !.id = next_id,
                                   !.ts = clock,
                                   !.log = [a |-> a, details |-> NoDetails,
                                            log_id |-> next_id]]]
    /\ next_id' = next_id + 1
    /\ tpc' = [tpc EXCEPT ![t] = "log_lock"]
    /\ ops_left' = ops_left - 1
    /\ UNCHANGED <<extraction_history, extraction_revisions, field_extractions,
                   audit_logs, clock, last_call, lock, conn>>
    /\ UNCHANGED <<proc_vars, frame, sec_vars>>

\* add_revision, lines 276-277: revision_id and the timestamp of the
\* revision, both read before the lock is taken.
StartAddRevision(t, a) ==
    /\ ops_left > 0 /\ tpc[t] = "idle"
    /\ calls' = [calls EXCEPT ![t] =
                  [IdleCall EXCEPT !.op = "add_revision", !.args = a, !.id = next_id,
                                   !.ts = clock]]
    /\ next_id' = next_id + 1
    /\ tpc' = [tpc EXCEPT ![t] = "rev_lock"]
    /\ ops_left' = ops_left - 1
    /\ UNCHANGED <<extraction_history, extraction_revisions, field_extractions,
                   audit_logs, clock, last_call, lock, conn>>
    /\ UNCHANGED <<proc_vars, frame, sec_vars>>

\* with self._lock (lines 206, 279): the thread waits until the lock is
\* free and takes it; the connection it then opens has no transaction yet.
AcquireLockUnguarded(t) ==
    /\ tpc[t] \in {"log_lock", "rev_lock"}
    /\ calls' = [calls EXCEPT ![t].base = Committed]
    /\ tpc' = [tpc EXCEPT ![t] = IF tpc[t] = "log_lock" THEN "log_insert" ELSE "rev_insert"]
    /\ UNCHANGED <<store_vars, lock, conn>>
    /\ UNCHANGED <<proc_vars, frame, sec_vars>>

AcquireLock(t) ==
    /\ tpc[t] \in {"log_lock", "rev_lock"}
    /\ LockFree
    /\ lock' = t
    /\ calls' = [calls EXCEPT ![t].base = Committed]
    /\ tpc' = [tpc EXCEPT ![t] = IF tpc[t] = "log_lock" THEN "log_insert" ELSE "rev_insert"]
    /\ UNCHANGED <<store_vars, conn>>
    /\ UNCHANGED <<proc_vars, frame, sec_vars>>

\* INSERT INTO extraction_history (lines 209-225); no confidence factors
\* are passed, and line 241 decides whether the field row is upserted.
InsertHistory(t) ==
    /\ tpc[t] = "log_insert"
    /\ LET l == calls[t].log
       IN /\ conn' = [conn EXCEPT ![t] =
                        Append(@, [kind |-> "event", ts |-> calls[t].ts, id |-> l.log_id,
                                   existing |-> FALSE,
                                   rec |-> HistoryEvent(l.log_id, l.a, l.details,
                                                        calls[t].ts)])]
          /\ tpc' = [tpc EXCEPT ![t] = IF TracksField(l.a) THEN "log_select"
                                       ELSE "log_commit"]
    /\ UNCHANGED <<store_vars, lock, calls>>
    /\ UNCHANGED <<proc_vars, frame, sec_vars>>

\* _update_field_extraction, lines 617-620: SELECT the row of the key.
SelectExisting(t) ==
    /\ tpc[t] = "log_select"
    /\ LET a == calls[t].log.a
       IN calls' = [calls EXCEPT ![t].existing =
                       RowsOf(View(t).rows, a.file_hash, a.field_name) # {}]
    /\ tpc' = [tpc EXCEPT ![t] = "log_upsert"]
    /\ UNCHANGED <<store_vars, lock, conn>>
    /\ UNCHANGED <<proc_vars, frame, sec_vars>>

\* _update_field_extraction, lines 622-643: UPDATE the row if the SELECT
\* found one, INSERT a row otherwise; the INSERT of a second row for the key
\* fails on UNIQUE(file_hash, field_name) with sqlite3.IntegrityError, which
\* ends the call without a commit.
UpsertField(t) ==
    /\ tpc[t] = "log_upsert"
    /\ LET a == calls[t].log.a
           duplicate == /\ ~calls[t].existing
                        /\ RowsOf(View(t).rows, a.file_hash, a.field_name) # {}
       IN IF duplicate
          THEN /\ conn' = [conn EXCEPT ![t] = <<>>]
               /\ lock' = IF lock = t THEN None ELSE lock
               /\ calls' = [calls EXCEPT ![t].outcome = "IntegrityError",
                                         ![t].lost = Len(conn[t])]
               /\ tpc' = [tpc EXCEPT ![t] = "idle"]
               /\ UNCHANGED next_id
          ELSE /\ conn' = [conn EXCEPT ![t] =
                             Append(@, [kind |-> "upsert", ts |-> clock, id |-> next_id,
                                        existing |-> calls[t].existing, rec |-> a])]
               /\ next_id' = IF calls[t].existing THEN next_id ELSE next_id + 1
               /\ tpc' = [tpc EXCEPT ![t] = "log_commit"]
               /\ UNCHANGED <<lock, calls>>
    /\ UNCHANGED <<extraction_history, extraction_revisions, field_extractions,
                   audit_logs, clock, ops_left, last_call>>
    /\ UNCHANGED <<proc_vars, frame, sec_vars>>

\* add_revision, lines 282-296: INSERT INTO extraction_revisions.
InsertRevision(t) ==
    /\ tpc[t] = "rev_insert"
    /\ LET a == calls[t].args
           revision == [revision_id |-> calls[t].id, parent_revision_id |-> None,
                        timestamp |-> calls[t].ts, file_hash |-> a.file_hash,
                        field_name |-> a.field_name, old_value |-> a.old_value,
                        new_value |-> a.new_value, old_confidence |-> <<a.old_confidence>>,
                        new_confidence |-> <<a.new_confidence>>,
                        changed_by |-> a.changed_by, reason |-> None]
       IN conn' = [conn EXCEPT ![t] =
                     Append(@, [kind |-> "revision", ts |-> calls[t].ts, id |-> calls[t].id,
                                existing |-> FALSE, rec |-> revision])]
    /\ tpc' = [tpc EXCEPT ![t] = "rev_update"]
    /\ UNCHANGED <<store_vars, lock, calls>>
    /\ UNCHANGED <<proc_vars, frame, sec_vars>>

\* add_revision, lines 299-304: UPDATE field_extractions.
UpdateRevisedField(t) ==
    /\ tpc[t] = "rev_update"
    /\ conn' = [conn EXCEPT ![t] =
                  Append(@, [kind |-> "revise", ts |-> calls[t].ts, id |-> calls[t].id,
                             existing |-> TRUE, rec |-> calls[t].args])]
    /\ tpc' = [tpc EXCEPT ![t] = "rev_commit"]
    /\ UNCHANGED <<store_vars, lock, calls>>
    /\ UNCHANGED <<proc_vars, frame, sec_vars>>

\* conn.commit() (lines 246, 306): the writes of the transaction become the
\* committed database; leaving the with block closes the connection.
Commit(t) ==
    /\ tpc[t] \in {"log_commit", "rev_commit"}
    /\ LET db == View(t)
       IN /\ extraction_history' = db.history
          /\ extraction_revisions' = db.revisions
          /\ field_extractions' = db.rows
    /\ conn' = [conn EXCEPT ![t] = <<>>]
    /\ tpc' = [tpc EXCEPT ![t] = IF tpc[t] = "log_commit" THEN "log_unlock"
                                 ELSE "rev_unlock"]
    /\ UNCHANGED <<audit_logs, clock, next_id, ops_left, last_call, lock, calls>>
    /\ UNCHANGED <<proc_vars, frame, sec_vars>>

\* A leaving of the with block that keeps the lock, as if log_extraction
\* were called inside it.
ReleaseLockKept(t) ==
    /\ tpc[t] \in {"log_unlock", "rev_unlock"}
    /\ tpc' = [tpc EXCEPT ![t] = IF tpc[t] = "log_unlock" THEN "log_audit" ELSE "rev_log"]
    /\ UNCHANGED <<store_vars, lock, calls, conn>>
    /\ UNCHANGED <<proc_vars, frame, sec_vars>>

\* Leaving with self._lock.
ReleaseLock(t) ==
    /\ tpc[t] \in {"log_unlock", "rev_unlock"}
    /\ lock' = IF lock = t THEN None ELSE lock
    /\ tpc' = [tpc EXCEPT ![t] = IF tpc[t] = "log_unlock" THEN "log_audit" ELSE "rev_log"]
    /\ UNCHANGED <<store_vars, calls, conn>>
    /\ UNCHANGED <<proc_vars, frame, sec_vars>>

\* add_revision, lines 309-323: the revision is logged by log_extraction.
LogRevision(t) ==
    /\ tpc[t] = "rev_log"
    /\ LET a == calls[t].args
       IN calls' = [calls EXCEPT ![t].ts = clock, ![t].log =
                [a |-> [action |-> "revision", user_id |-> a.changed_by,
                        file_hash |-> a.file_hash, field_name |-> a.field_name,
                        value |-> a.new_value, confidence |-> <<a.new_confidence>>,
                        success |-> TRUE, file_name |-> None],
                 details |-> [revision_id |-> calls[t].id, old_value |-> a.old_value,
                              old_confidence |-> <<a.old_confidence>>,
                              confidence_change |-> <<a.new_confidence - a.old_confidence>>,
                              reason |-> None],
                 log_id |-> next_id]]
    /\ next_id' = next_id + 1
    /\ tpc' = [tpc EXCEPT ![t] = "log_lock"]
    /\ UNCHANGED <<extraction_history, extraction_revisions, field_extractions,
                   audit_logs, clock, ops_left, last_call, lock, conn>>
    /\ UNCHANGED <<proc_vars, frame, sec_vars>>

\* log_extraction, lines 249-261: the event goes to the base audit logger
\* and the call returns, or AuditAction(action) raises ValueError.
BaseAudit(t) ==
    /\ tpc[t] = "log_audit"
    /\ LET a == calls[t].log.a
           base == AuditActionOf(a.action)
       IN IF base = None
          THEN /\ calls' = [calls EXCEPT ![t].outcome = "ValueError"]
               /\ UNCHANGED <<audit_logs, next_id>>
          ELSE /\ calls' = [calls EXCEPT ![t].outcome = "returned"]
               /\ audit_logs' = Append(audit_logs,
                                   [id |-> next_id, timestamp |-> clock, action |-> base,
                                    user_id |-> a.user_id, file_hash |-> a.file_hash,
                                    success |-> a.success])
               /\ next_id' = next_id + 1
    /\ tpc' = [tpc EXCEPT ![t] = "idle"]
    /\ UNCHANGED <<extraction_history, extraction_revisions, field_extractions,
                   clock, ops_left, last_call, lock, conn>>
    /\ UNCHANGED <<proc_vars, frame, sec_vars>>

\* The positions at which a thread is about to execute a statement of its
\* write transaction.
StatementPositions ==
    {"log_insert", "log_select", "log_upsert", "log_commit",
     "rev_insert", "rev_update", "rev_commit"}

\* A failure that commits the statements executed before it.
StorageFailsKeepsWrites(t) ==
    /\ tpc[t] \in StatementPositions
    /\ LET db == View(t)
       IN /\ extraction_history' = db.history
          /\ extraction_revisions' = db.revisions
          /\ field_extractions' = db.rows
    /\ conn' = [conn EXCEPT ![t] = <<>>]
    /\ lock' = IF lock = t THEN None ELSE lock
    /\ calls' = [calls EXCEPT ![t].outcome = "OperationalError",
                              ![t].lost = Len(conn[t])]
    /\ tpc' = [tpc EXCEPT ![t] = "idle"]
    /\ UNCHANGED <<audit_logs, clock, next_id, ops_left, last_call>>
    /\ UNCHANGED <<proc_vars, frame, sec_vars>>

\* A statement of the transaction (or its commit) raises, for instance
\* sqlite3.OperationalError when the storage is unavailable: nothing catches
\* it, _get_connection closes the connection without a commit (lines
\* 153-156), which discards the transaction, the lock is released and the
\* exception reaches the caller.
StorageFails(t) ==
    /\ tpc[t] \in StatementPositions
    /\ conn' = [conn EXCEPT ![t] = <<>>]
    /\ lock' = IF lock = t THEN None ELSE lock
    /\ calls' = [calls EXCEPT ![t].outcome = "OperationalError",
                              ![t].lost = Len(conn[t])]
    /\ tpc' = [tpc EXCEPT ![t] = "idle"]
    /\ UNCHANGED store_vars
    /\ UNCHANGED <<proc_vars, frame, sec_vars>>

\* get_field_history: no lock is taken and no transaction is opened; each of
\* its two SELECTs reads the database committed when it is executed.
StartGetFieldHistory(t, file_hash, field_name) ==
    /\ ops_left > 0 /\ tpc[t] = "idle"
    /\ calls' = [calls EXCEPT ![t] =
                  [IdleCall EXCEPT !.op = "get_field_history",
                                   !.args = [file_hash |-> file_hash,
                                             field_name |-> field_name]]]
    /\ tpc' = [tpc EXCEPT ![t] = "get_row"]
    /\ ops_left' = ops_left - 1
    /\ UNCHANGED <<extraction_history, extraction_revisions, field_extractions,
                   audit_logs, clock, next_id, last_call, lock, conn>>
    /\ UNCHANGED <<proc_vars, frame, sec_vars>>

\* The revision ids stored for a key.
StoredRevisions(revisions, a) ==
    {revisions[i].revision_id : i \in {j \in 1..Len(revisions) :
        /\ revisions[j].file_hash = a.file_hash
        /\ revisions[j].field_name = a.field_name}}

\* lines 405-411: SELECT the row of the key; None is returned without one.
SelectFieldRow(t) ==
    /\ tpc[t] = "get_row"
    /\ LET a == calls[t].args
           rows == RowsOf(field_extractions, a.file_hash, a.field_name)
       IN IF rows = {}
          THEN /\ calls' = [calls EXCEPT ![t].outcome = "returned"]
               /\ tpc' = [tpc EXCEPT ![t] = "idle"]
          ELSE /\ calls' = [calls EXCEPT
                              ![t].row = <<CHOOSE r \in rows : TRUE>>,
                              ![t].stored = StoredRevisions(extraction_revisions, a)]
               /\ tpc' = [tpc EXCEPT ![t] = "get_revisions"]
    /\ UNCHANGED <<store_vars, lock, conn>>
    /\ UNCHANGED <<proc_vars, frame, sec_vars>>

\* lines 414-445: SELECT the revisions of the key and build the result.
SelectRevisions(t) ==
    /\ tpc[t] = "get_revisions"
    /\ LET row == calls[t].row[1]
       IN calls' = [calls EXCEPT
                     ![t].revisions = StoredRevisions(extraction_revisions, calls[t].args),
                     ![t].outcome = IF row.current_confidence = <<>>
                                       \/ row.original_confidence = <<>>
                                    THEN "ValidationError" ELSE "returned"]
    /\ tpc' = [tpc EXCEPT ![t] = "idle"]
    /\ UNCHANGED <<store_vars, lock, conn>>
    /\ UNCHANGED <<proc_vars, frame, sec_vars>>

ThreadsNext ==
    \/ \E t \in Threads, a \in ThreadLogArgs : StartLogExtraction(t, a)
    \/ \E t \in Threads, a \in ThreadRevisionArgs : StartAddRevision(t, a)
    \/ \E t \in Threads : AcquireLock(t)
    \/ \E t \in Threads : InsertHistory(t)
    \/ \E t \in Threads : SelectExisting(t)
    \/ \E t \in Threads : UpsertField(t)
    \/ \E t \in Threads : InsertRevision(t)
    \/ \E t \in Threads : UpdateRevisedField(t)
    \/ \E t \in Threads : Commit(t)
    \/ \E t \in Threads : ReleaseLock(t)
    \/ \E t \in Threads : LogRevision(t)
    \/ \E t \in Threads : BaseAudit(t)
    \/ \E t \in Threads : StorageFails(t)
    \/ \E t \in Threads : StartGetFieldHistory(t, "h1", "amount")
    \/ \E t \in Threads : SelectFieldRow(t)
    \/ \E t \in Threads : SelectRevisions(t)

SpecThreads == InitThreads /\ [][ThreadsNext]_vars

\* ======================================================================
\* Properties of concurrent calls
\* ======================================================================
OneRowPerKey(rows) ==
    \A r, q \in rows :
        (r.file_hash = q.file_hash /\ r.field_name = q.field_name) => r = q
InWriteTransaction(t) == conn[t] # <<>>
ReadPositions == {"get_row", "get_revisions"}

\* C15: there is at most one field_extractions row per (file_hash,
\* field_name), in the committed database and in what every connection
\* reads, also when threads call log_extraction for the same new key at the
\* same time: between the SELECT and the INSERT or UPDATE of a thread, and
\* until its commit, no other thread executes a statement of a write
\* transaction, so that what the SELECT found still holds at the write.
C15_OneRowPerKey ==
    /\ OneRowPerKey(field_extractions)
    /\ \A t \in Threads :
         /\ OneRowPerKey(View(t).rows)
         /\ tpc[t] \in {"log_select", "log_upsert", "log_commit"} =>
              \A u \in Threads \ {t} :
                  ~InWriteTransaction(u) /\ tpc[u] \notin StatementPositions
         /\ tpc[t] = "log_upsert" =>
              (calls[t].existing
                 <=> RowsOf(View(t).rows, calls[t].log.a.file_hash,
                            calls[t].log.a.field_name) # {})
C15_Witness ==
    /\ field_extractions = {}
    /\ \E t, u \in Threads :
         /\ t # u
         /\ tpc[t] = "log_upsert" /\ ~calls[t].existing
         /\ tpc[u] = "log_lock"
         /\ calls[u].log.a.file_hash = calls[t].log.a.file_hash
         /\ calls[u].log.a.field_name = calls[t].log.a.field_name
         /\ TracksField(calls[u].log.a)

\* C16: at most one write transaction of the store is open at any time,
\* every statement of a write transaction (and its commit) is executed by
\* the thread that holds the lock, and get_field_history never holds the
\* lock nor changes it.
C16_WritesUnderLock ==
    [][/\ Cardinality({t \in Threads : InWriteTransaction(t)'}) <= 1
       /\ \A t \in Threads :
            /\ (tpc'[t] \in StatementPositions \cup {"log_unlock", "rev_unlock"})
                  => lock' = t
            /\ InWriteTransaction(t)' => lock' = t
            /\ tpc'[t] \in ReadPositions => lock' # t
            /\ (tpc[t] \in ReadPositions /\ calls'[t] # calls[t])
                  => /\ lock' = lock
                     /\ Committed' = Committed
      ]_vars
C16_Witness ==
    \E t, u \in Threads :
        /\ lock = t /\ InWriteTransaction(t) /\ Len(conn[t]) = 2
        /\ tpc[u] = "get_revisions"

\* The revisions in db that no history event of action revision names.
UnloggedRevisions(db) ==
    {j \in 1..Len(db.revisions) :
        \A i \in 1..Len(db.history) :
            ~(/\ db.history[i].action = "revision"
              /\ db.history[i].details.revision_id = db.revisions[j].revision_id)}

\* C17 (as stated): a read never observes a part of an add_revision: the
\* database a read runs against holds the revision event of every revision
\* record it holds, and get_field_history returns the field row and the
\* revisions of one committed state.
C17_NoTornRevision ==
    \A t \in Threads :
        /\ tpc[t] \in ReadPositions => UnloggedRevisions(Committed) = {}
        /\ (calls[t].op = "get_field_history" /\ tpc[t] = "idle"
              /\ calls[t].row # <<>>)
           => calls[t].revisions = calls[t].stored

C19_SummaryForEveryLoggedFile ==
    last_call.op = "get_file_summary" =>
        LET events == {i \in 1..Len(extraction_history) :
                          extraction_history[i].file_hash = last_call.args.file_hash}
            extracts == {i \in events : extraction_history[i].action = "extract"}
        IN /\ last_call.outcome = "returned"
           /\ last_call.found <=> events # {}
           /\ last_call.found =>
                /\ last_call.row.total_extractions = Cardinality(extracts)
                /\ last_call.row.successful_extractions
                     = Cardinality({i \in extracts : extraction_history[i].success})
                /\ last_call.row.failed_extractions
                     = Cardinality({i \in extracts : ~extraction_history[i].success})

\* C20 (as stated): _calculate_pattern_confidence is in [0, 1] for every
\* field type, value and context, and every field of a result returned by
\* process_pdf, from text or from a table, has a confidence in [0, 1].
C20_ConfidenceInUnitInterval ==
    /\ \A ft \in FieldTypes, f \in Features :
         CalculatePatternConfidence(ft, f) \in 0..100
    /\ pc = "returned" =>
         \A i \in 1..Len(result.fields) : result.fields[i].confidence \in 0..100

\* ======================================================================
\* The helper methods of PDFProcessor, one call at a time
\* ======================================================================

\* ---- the calls -----------------------------------------------------------
\* Page texts given to _extract_fields_from_text.
MatcherTexts ==
    {"", CheckText, "Name:\n", "Address Main St\nStreet: Main St ",
     "Street: Main St\nAddress Main St ",
     "Check Number: 12345\nDate: 12/31/2023\nAmount: $500.00"}

\* Cell values given to _identify_field_type.
CellValues ==
    {"", "12345", "123-45-6789", "987654321", AmountCell, "12/31/2023",
     "user@example.com", "(555) 123-4567", "$1,234.56 paid", "  #12345 ", "n/a"}

\* Values given to _calculate_pattern_confidence, by field type.
ScoredValues(field_type) ==
    CASE field_type = "check_number" ->
            {<<"1", "2">>, <<"1", "2", "3">>, <<"1", "2", "3", "4">>, <<"1", "2", "3", "4",
                "5">>}
      [] field_type = "date" ->
            {<<"1", "2", "/", "3", "1", "/", "2", "0", "2", "3">>, <<"J", "a", "n", " ",
                "5">>, <<"s", "o", "o", "n">>}
      [] field_type = "amount" ->
            {<<"1", ",", "2", "3", "4", ".", "5", "6">>, <<"1", "2", "3", "4", ".", "5",
                "6">>, <<"1", "2">>}
      [] field_type = "routing_number" ->
            {<<"9", "8", "7", "6", "5", "4", "3", "2", "1">>, <<"9", "8", "7", "6", "5">>}
      [] field_type = "ssn" ->
            {<<"1", "2", "3", "-", "4", "5", "-", "6", "7", "8", "9">>, <<"1", "2", "3", "4",
                "5", "6", "7", "8", "9">>}
      [] OTHER -> {<<"B", "o", "b">>}

\* Contexts given with them: none; the value right after a location keyword
\* of the type; the value alone on the first line and after the keyword
\* more than 50 characters later; the value with no keyword; the value more
\* than 50 characters after the keyword.
Filler == [i \in 1..60 |-> "x"]
ContextsOf(field_type, value) ==
    LET keyword == IF field_type \in LocationKeywordTypes
                   THEN LocationKeywords(field_type)[1] ELSE <<"r", "e", "f">>
    IN {keyword \o <<":", " ">> \o value,
        value \o <<"\n">> \o Filler \o <<" ">> \o keyword \o <<" ">> \o value,
        Filler \o <<" ">> \o value,
        keyword \o <<" ">> \o Filler \o <<" ">> \o value}
ScoredContexts(field_type) ==
    {<<>>} \cup UNION {ContextsOf(field_type, value) : value \in ScoredValues(field_type)}
ScoredTypes ==
    {"check_number", "date", "amount", "name", "account_number", "routing_number",
     "ssn", "email"}

\* What a call of a table library gives: it raises, or it returns tables.
\* A table is its page and its accuracy (camelot reports its own, the
\* pdfplumber fallback writes 0.7), and the strategy that found it.
TablesOf(strategy) ==
    [page : 1..MaxPages,
     accuracy : IF strategy = "pdfplumber" THEN {70} ELSE TableAccuracies \ {70},
     by : {strategy}]
LibraryOutcomes(strategy) ==
    {[raises |-> TRUE, tables |-> <<>>]} \cup
    {[raises |-> FALSE, tables |-> ts] :
        ts \in {<<>>} \cup {<<t>> : t \in TablesOf(strategy)}
                      \cup {<<t, u>> : t \in TablesOf(strategy), u \in TablesOf(strategy)}}

\* The frame of a call that has just started.
HelperCalls ==
    {[fn |-> "extract_fields_from_text", pc |-> "patterns", text |-> text,
      page_num |-> page_num, k |-> 1, fields |-> <<>>, out |-> <<>>] :
        text \in MatcherTexts, page_num \in 1..MaxPages}
    \cup
    {[fn |-> "identify_field_type", pc |-> "patterns", value |-> value, k |-> 1,
      out |-> None] : value \in CellValues}
    \cup
    UNION {{[fn |-> "calculate_pattern_confidence", pc |-> "called",
             field_type |-> field_type, value |-> value, context |-> context,
             out |-> 0] :
               value \in ScoredValues(field_type), context \in ScoredContexts(field_type)} :
           field_type \in ScoredTypes}
    \cup
    {[fn |-> "extract_tables", pc |-> "lattice", tables |-> <<>>, tables_data |-> <<>>,
      attempts |-> <<>>]}

HelperInit ==
    ProcInit /\ StoreInit /\ TxnInit /\ ops_left = 0 /\ frame \in HelperCalls /\ SecIdle

\* ---- _extract_fields_from_text, lines 214-255 -----------------------------
\* The ExtractedFields of the matches of pattern k on a page.
TextFields(k, text, page_num) ==
    LET ms == MatchesOf(k, text)
    IN [i \in 1..Len(ms) |->
          [name |-> ms[i].name, value |-> ms[i].value, confidence |-> ms[i].confidence,
           page |-> page_num, method |-> "text"]]

\* One pattern of the loops of lines 219-245: its matches become fields.
MatchPattern ==
    /\ frame.fn = "extract_fields_from_text"
    /\ frame.pc = "patterns"
    /\ frame' = [frame EXCEPT
            !.fields = @ \o TextFields(frame.k, frame.text, frame.page_num),
            !.k = @ + 1,
            !.pc = IF frame.k = Len(Patterns) THEN "dedup" ELSE "patterns"]
    /\ UNCHANGED <<proc_vars, store_vars, txn_vars, sec_vars>>

\* Lines 247-255: the duplicates go, the list is returned.
RemoveDuplicates ==
    /\ frame.fn = "extract_fields_from_text"
    /\ frame.pc = "dedup"
    /\ frame' = [frame EXCEPT !.out = Dedup(frame.fields, <<>>), !.pc = "returned"]
    /\ UNCHANGED <<proc_vars, store_vars, txn_vars, sec_vars>>

\* ---- _identify_field_type, lines 453-467 ----------------------------------
\* One pattern of the loops of lines 458-465, tried on the stripped value:
\* the first that matches ends the call with its field type.
TryPattern ==
    /\ frame.fn = "identify_field_type"
    /\ frame.pc = "patterns"
    /\ frame.k <= Len(Patterns)
    /\ IF ReMatch(Patterns[frame.k][2], Strip(Chars(frame.value)), Flags(TRUE, FALSE))
       THEN frame' = [frame EXCEPT !.out = Patterns[frame.k][1], !.pc = "returned"]
       ELSE frame' = [frame EXCEPT !.k = @ + 1]
    /\ UNCHANGED <<proc_vars, store_vars, txn_vars, sec_vars>>

\* Line 467: no pattern matched.
NoPatternMatched ==
    /\ frame.fn = "identify_field_type"
    /\ frame.pc = "patterns"
    /\ frame.k > Len(Patterns)
    /\ frame' = [frame EXCEPT !.out = None, !.pc = "returned"]
    /\ UNCHANGED <<proc_vars, store_vars, txn_vars, sec_vars>>

\* ---- _calculate_pattern_confidence, lines 257-350 -------------------------
ScoreMatch ==
    /\ frame.fn = "calculate_pattern_confidence"
    /\ frame.pc = "called"
    /\ frame' = [frame EXCEPT
            !.out = PatternConfidence(frame.field_type, frame.value, frame.context),
            !.pc = "returned"]
    /\ UNCHANGED <<proc_vars, store_vars, txn_vars, sec_vars>>

\* ---- extract_tables, lines 352-391 ----------------------------------------
\* The loop of lines 365-380 only reads attributes of the tables camelot
\* returned and cannot raise: what raises in the try block is a call of
\* camelot.read_pdf.
Attempt(strategy, outcome) ==
    [strategy |-> strategy, raised |-> outcome.raises, found |-> Len(outcome.tables)]

\* The lattice call going on to the stream flavor whatever it found.
CamelotLatticeThenStream(outcome) ==
    /\ frame.fn = "extract_tables"
    /\ frame.pc = "lattice"
    /\ frame' = [frame EXCEPT
            !.attempts = Append(@, Attempt("lattice", outcome)),
            !.tables = outcome.tables,
            !.pc = IF outcome.raises THEN "except" ELSE "stream"]
    /\ UNCHANGED <<proc_vars, store_vars, txn_vars, sec_vars>>

\* Line 358: camelot.read_pdf(flavor='lattice'). With no table the stream
\* flavor is next.
CamelotLattice(outcome) ==
    /\ frame.fn = "extract_tables"
    /\ frame.pc = "lattice"
    /\ frame' = [frame EXCEPT
            !.attempts = Append(@, Attempt("lattice", outcome)),
            !.tables = outcome.tables,
            !.pc = IF outcome.raises THEN "except"
                   ELSE IF Len(outcome.tables) = 0 THEN "stream" ELSE "collect"]
    /\ UNCHANGED <<proc_vars, store_vars, txn_vars, sec_vars>>

\* Line 363: camelot.read_pdf(flavor='stream')
CamelotStream(outcome) ==
    /\ frame.fn = "extract_tables"
    /\ frame.pc = "stream"
    /\ frame' = [frame EXCEPT
            !.attempts = Append(@, Attempt("stream", outcome)),
            !.tables = outcome.tables,
            !.pc = IF outcome.raises THEN "except" ELSE "collect"]
    /\ UNCHANGED <<proc_vars, store_vars, txn_vars, sec_vars>>

\* Lines 365-380: a table_info per table, with the accuracy camelot reports.
CollectTables ==
    /\ frame.fn = "extract_tables"
    /\ frame.pc = "collect"
    /\ frame' = [frame EXCEPT !.tables_data = @ \o frame.tables, !.pc = "return"]
    /\ UNCHANGED <<proc_vars, store_vars, txn_vars, sec_vars>>

\* The except branch with no try around the fallback call.
TablesWithPdfplumberUncaught(outcome) ==
    /\ frame.fn = "extract_tables"
    /\ frame.pc = "except"
    /\ frame' = [frame EXCEPT
            !.attempts = Append(@, Attempt("pdfplumber", outcome)),
            !.tables_data = IF outcome.raises THEN @ ELSE outcome.tables,
            !.pc = IF outcome.raises THEN "raised" ELSE "return"]
    /\ UNCHANGED <<proc_vars, store_vars, txn_vars, sec_vars>>

\* Lines 382-389: the except branch calls _extract_tables_with_pdfplumber
\* and takes its list; if that raises too, this is logged and tables_data
\* stays.
TablesWithPdfplumber(outcome) ==
    /\ frame.fn = "extract_tables"
    /\ frame.pc = "except"
    /\ frame' = [frame EXCEPT
            !.attempts = Append(@, Attempt("pdfplumber", outcome)),
            !.tables_data = IF outcome.raises THEN @ ELSE outcome.tables,
            !.pc = "return"]
    /\ UNCHANGED <<proc_vars, store_vars, txn_vars, sec_vars>>

\* Line 391
ReturnTables ==
    /\ frame.fn = "extract_tables"
    /\ frame.pc = "return"
    /\ frame' = [frame EXCEPT !.pc = "returned"]
    /\ UNCHANGED <<proc_vars, store_vars, txn_vars, sec_vars>>

HelperNext ==
    \/ MatchPattern
    \/ RemoveDuplicates
    \/ TryPattern
    \/ NoPatternMatched
    \/ ScoreMatch
    \/ \E outcome \in LibraryOutcomes("lattice") : CamelotLattice(outcome)
    \/ \E outcome \in LibraryOutcomes("stream") : CamelotStream(outcome)
    \/ CollectTables
    \/ \E outcome \in LibraryOutcomes("pdfplumber") : TablesWithPdfplumber(outcome)
    \/ ReturnTables

SpecHelpers == HelperInit /\ [][HelperNext]_vars

\* ======================================================================
\* Claims about field matching, scoring and table extraction
\* ======================================================================
TextReturned == frame.fn = "extract_fields_from_text" /\ frame.pc = "returned"
CellReturned == frame.fn = "identify_field_type" /\ frame.pc = "returned"
ScoreReturned == frame.fn = "calculate_pattern_confidence" /\ frame.pc = "returned"
TablesReturned == frame.fn = "extract_tables" /\ frame.pc = "returned"
SameKey(f, g) == f.name = g.name /\ f.value = g.value

\* C21: no field returned by match(text, page) has a value that is empty
\* after trimming; a match whose captured value is only whitespace is
\* discarded.
C21_NoEmptyValue ==
    TextReturned =>
        \A i \in 1..Len(frame.out) : Strip(Chars(frame.out[i].value)) # <<>>

\* C22: the fields returned by one call match(text, page) hold at most one
\* entry per (field type, trimmed value), and the entry kept for a key is a
\* raw match of that key with the highest confidence among them.
C22_OneEntryPerKeyBestKept ==
    TextReturned =>
        /\ \A i, j \in 1..Len(frame.out) :
              SameKey(frame.out[i], frame.out[j]) => i = j
        /\ \A j \in 1..Len(frame.out) :
              \E i \in 1..Len(frame.fields) : frame.fields[i] = frame.out[j]
        /\ \A i \in 1..Len(frame.fields) :
              \E j \in 1..Len(frame.out) :
                 /\ SameKey(frame.fields[i], frame.out[j])
                 /\ frame.out[j].confidence >= frame.fields[i].confidence
\* Two raw matches shared a key and the later one had the higher confidence.
C22_Witness ==
    /\ TextReturned
    /\ \E i, j \in 1..Len(frame.fields) :
          /\ i < j
          /\ SameKey(frame.fields[i], frame.fields[j])
          /\ frame.fields[i].confidence < frame.fields[j].confidence

\* C23: the fields of a result returned by process hold at most one entry
\* per (field type, value), also for a value found on several pages or both
\* in page text and in a table cell.
C23_OneEntryPerKeyInResult ==
    pc = "returned" =>
        \A i, j \in 1..Len(result.fields) :
            SameKey(result.fields[i], result.fields[j]) => i = j

\* C24: in every result returned by process, confidence is the arithmetic
\* mean of the confidences of the entries of fields (their sum over their
\* number), and 0.0 when fields is empty.
C24_ConfidenceIsMean ==
    pc = "returned" =>
        IF result.fields = <<>>
        THEN result.confidence_sum = 0 /\ result.confidence_n = 0
        ELSE /\ result.confidence_sum = SumConfidence(result.fields)
             /\ result.confidence_n = Len(result.fields)
\* A result with a field from page text and a field from a table.
C24_Witness ==
    /\ pc = "returned"
    /\ \E i, j \in 1..Len(result.fields) :
          /\ result.fields[i].method = "text"
          /\ result.fields[j].method = "table"
          /\ result.fields[i].confidence # result.fields[j].confidence

\* C25: extract_tables never raises to its caller, and when a primary
\* strategy raises and the fallback raises too it returns an empty list.
PrimaryRaised ==
    \E i \in 1..Len(frame.attempts) :
        frame.attempts[i].strategy \in {"lattice", "stream"} /\ frame.attempts[i].raised
FallbackRaised ==
    \E i \in 1..Len(frame.attempts) :
        frame.attempts[i].strategy = "pdfplumber" /\ frame.attempts[i].raised
C25_TablesNeverRaise ==
    frame.fn = "extract_tables" =>
        /\ frame.pc # "raised"
        /\ (frame.pc = "returned" /\ PrimaryRaised /\ FallbackRaised
               => frame.tables_data = <<>>)
C25_Witness ==
    TablesReturned /\ PrimaryRaised /\ FallbackRaised /\ frame.tables_data = <<>>

\* C26: a cell gets a field type only if a pattern of that type matches the
\* whole trimmed cell value, not merely its beginning.
FullMatch(pattern, s, fl) ==
    LET rs == Run(pattern, s, 1, <<>>, fl)
    IN \E i \in 1..Len(rs) : rs[i].pos = Len(s) + 1
C26_WholeValueMatch ==
    CellReturned /\ frame.out # None =>
        \E k \in 1..Len(Patterns) :
            /\ Patterns[k][1] = frame.out
            /\ FullMatch(Patterns[k][2], Strip(Chars(frame.value)), Flags(TRUE, FALSE))

\* C27: matchCell classifies the documented bare cell values by their shape:
\* '12345' check_number, '123-45-6789' ssn, '987654321' routing_number,
\* '$1,234.56' amount, '12/31/2023' date, 'user@example.com' email,
\* '(555) 123-4567' phone.
DocumentedShapes ==
    ("12345" :> "check_number") @@ ("123-45-6789" :> "ssn") @@
    ("987654321" :> "routing_number") @@ ("$1,234.56" :> "amount") @@
    ("12/31/2023" :> "date") @@ ("user@example.com" :> "email") @@
    ("(555) 123-4567" :> "phone")
C27_DocumentedShapes ==
    CellReturned /\ frame.value \in DOMAIN DocumentedShapes =>
        frame.out = DocumentedShapes[frame.value]

\* C28: for a field type with location keywords, the score with a context
\* in which the value occurs within 50 characters of a keyword of the type
\* is at least the score with the empty context.
Occurrences(s, sub) ==
    {i \in 1..Len(s) :
        i + Len(sub) - 1 <= Len(s) /\ \A k \in 1..Len(sub) : s[i + k - 1] = sub[k]}
RelevantContext(field_type, value, context) ==
    LET keywords == LocationKeywords(field_type)
    IN \E k \in 1..Len(keywords) :
          \E i \in Occurrences(Lower(context), Lower(value)),
             j \in Occurrences(Lower(context), keywords[k]) :
                /\ i - (j + Len(keywords[k])) <= 50
                /\ j - (i + Len(value)) <= 50
C28_ContextNeverLowers ==
    /\ ScoreReturned
    /\ frame.field_type \in LocationKeywordTypes
    /\ RelevantContext(frame.field_type, frame.value, frame.context)
    => frame.out >= PatternConfidence(frame.field_type, frame.value, <<>>)

\* C29, as stated: for check_number digit strings scored with the same
\* context, the score does not decrease with the length of the value, and a
\* value of 4 or more digits scores strictly higher than a 3-digit one.
LongerScoresHigher(other) ==
    LET there == PatternConfidence("check_number", other, frame.context)
    IN /\ Len(frame.value) <= Len(other) => frame.out <= there
       /\ Len(frame.value) = 3 /\ Len(other) >= 4 => frame.out < there
C29_LongerScoresHigherSameContext ==
    ScoreReturned /\ frame.field_type = "check_number" /\ IsDigit(frame.value) =>
        \A other \in ScoredValues("check_number") : LongerScoresHigher(other)
\* C29, amended: the same, for two values to which the context gives the
\* same location and context scores (as the empty context does).
SameSurroundings(value, other, context) ==
    LET f == FeaturesOf("check_number", value, context)
        g == FeaturesOf("check_number", other, context)
    IN f.near_keyword = g.near_keyword /\ f.structured = g.structured
C29_LongerScoresHigherSameSurroundings ==
    ScoreReturned /\ frame.field_type = "check_number" /\ IsDigit(frame.value) =>
        \A other \in ScoredValues("check_number") :
            SameSurroundings(frame.value, other, frame.context)
                => LongerScoresHigher(other)
\* A 3-digit value scored with a context that treats a longer value alike.
C29_Witness ==
    /\ ScoreReturned /\ frame.field_type = "check_number"
    /\ Len(frame.value) = 3 /\ frame.context # <<>>
    /\ \E other \in ScoredValues("check_number") :
          /\ Len(other) >= 4
          /\ SameSurroundings(frame.value, other, frame.context)
          /\ frame.out < PatternConfidence("check_number", other, frame.context)

\* C30: the stream strategy is attempted only right after the lattice
\* strategy returned no table, the pdfplumber fallback only right after a
\* primary strategy raised, and when the fallback's output is returned
\* every returned table has accuracy 0.7 and none is a primary strategy's.
C30_StrategyOrder ==
    frame.fn = "extract_tables" =>
        /\ \A i \in 1..Len(frame.attempts) :
              LET a == frame.attempts[i]
              IN /\ a.strategy = "lattice" => i = 1
                 /\ a.strategy = "stream" =>
                       /\ i = 2
                       /\ frame.attempts[1].strategy = "lattice"
                       /\ ~frame.attempts[1].raised
                       /\ frame.attempts[1].found = 0
                 /\ a.strategy = "pdfplumber" =>
                       /\ i > 1
                       /\ frame.attempts[i - 1].strategy \in {"lattice", "stream"}
                       /\ frame.attempts[i - 1].raised
        /\ (/\ frame.pc = "returned"
            /\ \E i \in 1..Len(frame.attempts) :
                  frame.attempts[i].strategy = "pdfplumber" /\ ~frame.attempts[i].raised)
           => \A i \in 1..Len(frame.tables_data) :
                 /\ frame.tables_data[i].accuracy = 70
                 /\ frame.tables_data[i].by = "pdfplumber"
\* The fallback's tables are returned after lattice found none and stream
\* raised.
C30_Witness ==
    /\ TablesReturned
    /\ Len(frame.attempts) = 3
    /\ frame.attempts[2].strategy = "stream" /\ frame.attempts[2].raised
    /\ frame.attempts[3].strategy = "pdfplumber" /\ ~frame.attempts[3].raised
    /\ Len(frame.tables_data) = 2

\* ======================================================================
\* Background cleanup: SecureFileHandler._cleanup_worker and the cleanup
\* thread of AuditLogger
\* ======================================================================
\* Times are seconds. Both workers are daemon threads started by the
\* constructors; each pass of a worker runs inside try / except Exception.
\* One process_with_security call copies its file to the secure directory
\* and processes the copy while the workers run.
StaleFile == "old.pdf"
SecureCopy == "check.pdf"

\* st_mtime of the source file of the call, as seconds before the copy:
\* written just now, or last modified more than the lifetime ago.
SourceAges == {0, temp_file_lifetime_seconds + 1}

AuditEntry(id, ts) ==
    [id |-> id, timestamp |-> ts, action |-> "extract", user_id |-> "user",
     file_hash |-> "h1", success |-> TRUE]
StoredAuditLogs ==
    {<<>>,
     <<AuditEntry(1, 0 - (audit_retention_days * SecondsPerDay + 1)), AuditEntry(2, 0)>>}

WorkersInit ==
    /\ ProcInit /\ TxnInit /\ frame = NoFrame
    /\ NetIdle /\ MemIdle /\ MsgIdle
    /\ extraction_history = <<>> /\ extraction_revisions = <<>>
    /\ field_extractions = {} /\ clock = 0 /\ next_id = 3 /\ ops_left = 0
    /\ last_call = NoCall
    /\ audit_logs \in StoredAuditLogs
    /\ now = 0
    /\ temp_dir \in {NoFiles, (StaleFile :> 0 - (temp_file_lifetime_seconds + 1))}
    /\ active_files = temp_dir
    /\ file_worker = [pc |-> "tracked", last |-> "none", runs |-> 1]
    /\ audit_worker = [pc |-> "wait", last |-> "none", runs |-> 0]
    /\ secure_op = [pc |-> "idle", secure_path |-> None]

worker_frame == <<proc_vars, txn_vars, frame, net_vars, mem_vars, msg_vars>>
store_rest == <<extraction_history, extraction_revisions, field_extractions,
                clock, next_id, ops_left, last_call>>

Without(files, gone) == [p \in DOMAIN files \ gone |-> files[p]]

\* age > self.config.temp_file_lifetime_seconds (lines 141-142, 156-157).
Expired(files) == {p \in DOMAIN files : now - files[p] > temp_file_lifetime_seconds}

\* More than the lifetime of a temporary file passes.
TimePasses ==
    /\ now \div temp_file_lifetime_seconds < MaxTime
    /\ now' = now + temp_file_lifetime_seconds + 1
    /\ UNCHANGED <<temp_dir, active_files, file_worker, audit_worker, secure_op>>
    /\ UNCHANGED <<store_vars, worker_frame>>

\* _cleanup_worker, lines 136-150: the tracked files older than the lifetime
\* are deleted and forgotten.
CleanTrackedFiles ==
    /\ file_worker.pc = "tracked"
    /\ temp_dir' = Without(temp_dir, Expired(active_files))
    /\ active_files' = Without(active_files, Expired(active_files))
    /\ file_worker' = [file_worker EXCEPT !.pc = "orphans"]
    /\ UNCHANGED <<now, audit_worker, secure_op>>
    /\ UNCHANGED <<store_vars, worker_frame>>

\* _cleanup_worker, lines 153-158: every file of the directory whose
\* st_mtime is older than the lifetime is deleted.
CleanOrphanedFiles ==
    /\ file_worker.pc = "orphans"
    /\ temp_dir' = Without(temp_dir, Expired(temp_dir))
    /\ file_worker' = [file_worker EXCEPT !.pc = "sleep", !.last = "cleaned"]
    /\ UNCHANGED <<now, active_files, audit_worker, secure_op>>
    /\ UNCHANGED <<store_vars, worker_frame>>

\* A pass whose exception leaves the loop.
FileCleanupFailsUncaught ==
    /\ file_worker.pc \in {"tracked", "orphans"}
    /\ file_worker' = [file_worker EXCEPT !.pc = "stopped", !.last = "failed"]
    /\ UNCHANGED <<now, temp_dir, active_files, audit_worker, secure_op>>
    /\ UNCHANGED <<store_vars, worker_frame>>

\* A statement of the pass raises (secure_delete on a file it may not open,
\* active_files changed during the iteration): the files deleted before it
\* stay deleted, except Exception swallows it (lines 160-162) and the worker
\* goes to sleep.
FileCleanupFails ==
    /\ file_worker.pc \in {"tracked", "orphans"}
    /\ \E gone \in SUBSET Expired(IF file_worker.pc = "tracked" THEN active_files
                                  ELSE temp_dir) :
         /\ temp_dir' = Without(temp_dir, gone)
         /\ active_files' = IF file_worker.pc = "tracked"
                            THEN Without(active_files, gone) ELSE active_files
    /\ file_worker' = [file_worker EXCEPT !.pc = "sleep", !.last = "failed"]
    /\ UNCHANGED <<now, audit_worker, secure_op>>
    /\ UNCHANGED <<store_vars, worker_frame>>

\* time.sleep(300) returns and the loop starts its next pass (lines 134, 165).
FileWorkerSleeps ==
    /\ file_worker.pc = "sleep"
    /\ file_worker.runs < MaxRuns
    /\ file_worker' = [file_worker EXCEPT !.pc = "tracked", !.runs = @ + 1]
    /\ UNCHANGED <<now, temp_dir, active_files, audit_worker, secure_op>>
    /\ UNCHANGED <<store_vars, worker_frame>>

\* _start_cleanup_thread, lines 216-217: the wait of a day ends and
\* cleanup_old_logs is called.
AuditWorkerWaits ==
    /\ audit_worker.pc = "wait"
    /\ audit_worker.runs < MaxRuns
    /\ audit_worker' = [audit_worker EXCEPT !.pc = "cleanup", !.runs = @ + 1]
    /\ UNCHANGED <<now, temp_dir, active_files, file_worker, secure_op>>
    /\ UNCHANGED <<store_vars, worker_frame>>

\* DELETE FROM audit_logs WHERE timestamp < cutoff (lines 197-204).
RecentLogs(logs) ==
    SelectSeq(logs, LAMBDA l :
        ~(l.timestamp < now - audit_retention_days * SecondsPerDay))

\* cleanup_old_logs, lines 195-209.
CleanupOldLogs ==
    /\ audit_worker.pc = "cleanup"
    /\ audit_logs' = RecentLogs(audit_logs)
    /\ audit_worker' = [audit_worker EXCEPT !.pc = "wait", !.last = "cleaned"]
    /\ UNCHANGED <<now, temp_dir, active_files, file_worker, secure_op>>
    /\ UNCHANGED <<store_rest, worker_frame>>

\* A cleanup whose exception leaves the loop.
AuditCleanupFailsUncaught(committed) ==
    /\ audit_worker.pc = "cleanup"
    /\ audit_logs' = IF committed THEN RecentLogs(audit_logs) ELSE audit_logs
    /\ audit_worker' = [audit_worker EXCEPT !.pc = "stopped", !.last = "failed"]
    /\ UNCHANGED <<now, temp_dir, active_files, file_worker, secure_op>>
    /\ UNCHANGED <<store_rest, worker_frame>>

\* cleanup_old_logs raises, in the DELETE (nothing is committed) or in the
\* VACUUM after the commit; except Exception swallows it (lines 218-220) and
\* the thread waits for the next day.
AuditCleanupFails(committed) ==
    /\ audit_worker.pc = "cleanup"
    /\ audit_logs' = IF committed THEN RecentLogs(audit_logs) ELSE audit_logs
    /\ audit_worker' = [audit_worker EXCEPT !.pc = "wait", !.last = "failed"]
    /\ UNCHANGED <<now, temp_dir, active_files, file_worker, secure_op>>
    /\ UNCHANGED <<store_rest, worker_frame>>

\* copy_to_secure_location, lines 123-128, called by secure_file_operation
\* (security_wrapper.py line 94): shutil.copy2 gives the copy the st_mtime of
\* its source, and the copy is tracked from now on.
CopyToSecureLocation(age) ==
    /\ secure_op.pc = "idle"
    /\ temp_dir' = (SecureCopy :> now - age) @@ temp_dir
    /\ active_files' = (SecureCopy :> now) @@ active_files
    /\ secure_op' = [secure_op EXCEPT !.pc = "processing", !.secure_path = SecureCopy]
    /\ UNCHANGED <<now, file_worker, audit_worker>>
    /\ UNCHANGED <<store_vars, worker_frame>>

\* process_func(secure_path) returns (security_wrapper.py lines 127-138);
\* nothing removes the copy when the call ends (lines 105-107).
ProcessSecureCopy ==
    /\ secure_op.pc = "processing"
    /\ secure_op' = [secure_op EXCEPT !.pc = "done"]
    /\ UNCHANGED <<now, temp_dir, active_files, file_worker, audit_worker>>
    /\ UNCHANGED <<store_vars, worker_frame>>

FileWorkerStep ==
    CleanTrackedFiles \/ CleanOrphanedFiles \/ FileCleanupFails \/ FileWorkerSleeps
AuditWorkerStep ==
    AuditWorkerWaits \/ CleanupOldLogs \/ (\E committed \in BOOLEAN : AuditCleanupFails(committed))

WorkersNext ==
    \/ TimePasses
    \/ CleanTrackedFiles
    \/ CleanOrphanedFiles
    \/ FileCleanupFails
    \/ FileWorkerSleeps
    \/ AuditWorkerWaits
    \/ CleanupOldLogs
    \/ \E committed \in BOOLEAN : AuditCleanupFails(committed)
    \/ \E age \in SourceAges : CopyToSecureLocation(age)
    \/ ProcessSecureCopy

\* The two worker threads are scheduled again and again: a sleep or wait
\* that can end does end, and a pass that has started goes on.
SpecWorkers ==
    WorkersInit /\ [][WorkersNext]_vars
    /\ WF_vars(FileWorkerStep) /\ WF_vars(AuditWorkerStep)

\* C31: a failure inside a cleanup pass is swallowed and does not stop the
\* worker: after every failed pass but the last one the model allows, the
\* worker of the temporary files and the worker of the audit log start their
\* next pass.
C31_FailedCleanupIsRetried ==
    \A n \in 1..(MaxRuns - 1) :
        /\ (file_worker.runs = n /\ file_worker.last = "failed"
                /\ file_worker.pc \notin {"tracked", "orphans"})
             ~> (file_worker.runs = n + 1 /\ file_worker.pc = "tracked")
        /\ (audit_worker.runs = n /\ audit_worker.last = "failed"
                /\ audit_worker.pc # "cleanup")
             ~> (audit_worker.runs = n + 1 /\ audit_worker.pc = "cleanup")
C31_Witness ==
    /\ file_worker.last = "failed" /\ file_worker.runs = 2 /\ file_worker.pc = "orphans"
    /\ audit_worker.last = "failed" /\ audit_worker.runs = 2
    /\ audit_worker.pc = "cleanup"

\* C36: the secure copy of a process_with_security call is in the secure
\* directory for as long as the call is processing it.
C36_CopyKeptWhileProcessing ==
    secure_op.pc = "processing" => secure_op.secure_path \in DOMAIN temp_dir

\* ======================================================================
\* ensure_local_only: threads calling a wrapped function
\* ======================================================================
\* Each thread calls a function wrapped by ensure_local_only (such as
\* process_with_security), statement by statement. The network is blocked
\* when the module has been imported, and unblocked when
\* unblock_all_network() has been called since.
NetInit ==
    /\ ProcInit /\ StoreInit /\ TxnInit /\ ops_left = 0 /\ frame = NoFrame
    /\ WorkersIdle /\ MemIdle /\ MsgIdle
    /\ is_blocked \in BOOLEAN
    /\ wrapped = [t \in Threads |-> NoWrapped]

net_frame == <<proc_vars, store_vars, txn_vars, frame, worker_vars, mem_vars, msg_vars>>

\* wrapper, line 131: was_blocked = NetworkBlocker.is_blocked().
ReadIsBlocked(t) ==
    /\ wrapped[t].pc = "idle"
    /\ wrapped[t].calls < MaxWrappedCalls
    /\ wrapped' = [wrapped EXCEPT ![t].pc = "entered", ![t].was_blocked = is_blocked,
                                  ![t].calls = @ + 1]
    /\ UNCHANGED <<is_blocked, net_frame>>

\* wrapper, lines 133-137: block_all_network() unless the network was
\* blocked, then the wrapped function is called.
BlockAndCall(t) ==
    /\ wrapped[t].pc = "entered"
    /\ is_blocked' = IF wrapped[t].was_blocked THEN is_blocked ELSE TRUE
    /\ wrapped' = [wrapped EXCEPT ![t].pc = "running"]
    /\ UNCHANGED net_frame

\* The wrapped function returns or raises.
FunctionEnds(t) ==
    /\ wrapped[t].pc = "running"
    /\ wrapped' = [wrapped EXCEPT ![t].pc = "finally"]
    /\ UNCHANGED <<is_blocked, net_frame>>

\* wrapper, lines 139-142: unblock_all_network() unless the network was
\* blocked before the call.
RestoreNetwork(t) ==
    /\ wrapped[t].pc = "finally"
    /\ is_blocked' = IF wrapped[t].was_blocked THEN is_blocked ELSE FALSE
    /\ wrapped' = [wrapped EXCEPT ![t].pc = "idle"]
    /\ UNCHANGED net_frame

NetworkNext ==
    \/ \E t \in Threads : ReadIsBlocked(t)
    \/ \E t \in Threads : BlockAndCall(t)
    \/ \E t \in Threads : FunctionEnds(t)
    \/ \E t \in Threads : RestoreNetwork(t)

SpecNetwork == NetInit /\ [][NetworkNext]_vars

\* C32: while a thread is inside a function wrapped by ensure_local_only,
\* the network is blocked.
C32_BlockedWhileRunning ==
    \A t \in Threads : wrapped[t].pc = "running" => is_blocked

\* ======================================================================
\* MemoryManager.create_memory_context: contexts of concurrent threads
\* ======================================================================
\* Each thread uses memory contexts in with statements, which may be
\* nested: a context is created, entered, and exited after every context
\* the thread has entered inside it. contexts[t] holds the contexts thread
\* t has created, in the order of creation.
MemInit ==
    /\ ProcInit /\ StoreInit /\ TxnInit /\ ops_left = 0 /\ frame = NoFrame
    /\ WorkersIdle /\ NetIdle /\ MsgIdle /\ MemIdle

mem_frame == <<proc_vars, store_vars, txn_vars, frame, worker_vars, net_vars, msg_vars>>

\* The max_mb arguments: none, or a limit in MB.
MaxMbs == {<<>>, <<100>>, <<200>>}

\* MemoryContext.__init__, lines 150-154: max_mb or manager._memory_limit_mb,
\* and the limit the manager has at this moment as original_limit.
CreateMemoryContext(t, max_mb) ==
    /\ Len(contexts[t]) < MaxContexts
    /\ \A i \in 1..Len(contexts[t]) : contexts[t][i].state # "created"
    /\ contexts' = [contexts EXCEPT ![t] =
                      Append(@, [max_mb |-> IF max_mb = <<>> \/ max_mb = <<0>>
                                            THEN memory_limit_mb ELSE max_mb[1],
                                 original_limit |-> memory_limit_mb,
                                 state |-> "created"])]
    /\ UNCHANGED <<memory_limit_mb, mem_frame>>

\* MemoryContext.__enter__, lines 156-159.
EnterContext(t) ==
    /\ contexts[t] # <<>>
    /\ contexts[t][Len(contexts[t])].state = "created"
    /\ memory_limit_mb' = contexts[t][Len(contexts[t])].max_mb
    /\ contexts' = [contexts EXCEPT ![t][Len(contexts[t])].state = "entered"]
    /\ UNCHANGED mem_frame

\* The context thread t leaves next: the one it entered last.
Innermost(t) ==
    {i \in 1..Len(contexts[t]) :
        /\ contexts[t][i].state = "entered"
        /\ \A j \in (i + 1)..Len(contexts[t]) : contexts[t][j].state = "exited"}

\* MemoryContext.__exit__, lines 161-172, at the end of the with block or
\* when an exception leaves it.
ExitContext(t) ==
    /\ \E i \in Innermost(t) :
         /\ memory_limit_mb' = contexts[t][i].original_limit
         /\ contexts' = [contexts EXCEPT ![t][i].state = "exited"]
    /\ UNCHANGED mem_frame

MemoryNext ==
    \/ \E t \in Threads, max_mb \in MaxMbs : CreateMemoryContext(t, max_mb)
    \/ \E t \in Threads : EnterContext(t)
    \/ \E t \in Threads : ExitContext(t)

SpecMemory == MemInit /\ [][MemoryNext]_vars

\* C37: once every memory context that was created has exited, the limit of
\* the manager is the limit it had before the first of them was entered.
C37_LimitRestoredAfterAllExits ==
    (\A t \in Threads : \A i \in 1..Len(contexts[t]) : contexts[t][i].state = "exited")
        => memory_limit_mb = memory_limit_mb_default

\* ======================================================================
\* ExtractorMessageHandler.process_message
\* ======================================================================
\* The handler runs on one asyncio event loop: a process_message coroutine
\* runs without interruption up to an await that suspends it, and the only
\* such await is the asyncio.sleep of _simulate_extraction_progress. tasks
\* holds the process_message calls in the order they were started; times
\* are seconds.
\* Session ids: f"session-{int(datetime.now().timestamp())}" is the pair of
\* its prefix and the second, a sessionId of the payload is any other pair,
\* and no sessionId is the empty sequence.
GeneratedSessionId(second) == <<"session-", second>>
ClientSession == <<"client", 0>>

\* class Priority, protocols.py lines 56-61: Priority(v) raises ValueError
\* for every other v.
PriorityValues == 1..4

\* The message types with a registered handler that are modelled, lines
\* 50-55 and 263-266.
HandledTypes == {"ping", "session.create", "extraction.process", "extraction.cancel"}

Message(type, priority, sessionId) ==
    [type |-> type, priority |-> priority, sessionId |-> sessionId]

\* The message dicts given to process_message: well-formed requests, a
\* type without a handler, and a message whose priority is no Priority.
Messages ==
    {Message("ping", 2, <<>>),
     Message("ping", 9, <<>>),
     Message("file.read", 2, <<>>),
     Message("session.create", 2, <<>>),
     Message("extraction.process", 2, <<>>),
     Message("extraction.process", 2, ClientSession),
     Message("extraction.cancel", 2, ClientSession),
     Message("extraction.cancel", 2, GeneratedSessionId(0))}

MsgInit ==
    /\ ProcInit /\ StoreInit /\ TxnInit /\ ops_left = 0 /\ frame = NoFrame
    /\ WorkersIdle /\ NetIdle /\ MemIdle /\ MsgIdle

msg_frame == <<proc_vars, store_vars, txn_vars, frame, net_vars, mem_vars,
               temp_dir, active_files, file_worker, audit_worker, secure_op>>

\* BaseMessage.from_dict, protocols.py lines 109-123.
Parses(m) == m.priority \in PriorityValues

Task(m, position, response, session) ==
    [msg |-> m, pc |-> position, response |-> response, session_id |-> session]

Received == [stats EXCEPT !.messages_received = @ + 1]
Processed == [Received EXCEPT !.messages_processed = @ + 1]
Failed == [Received EXCEPT !.messages_failed = @ + 1]

\* A second of the wall clock passes.
SecondPasses ==
    /\ now < MaxSeconds
    /\ now' = now + 1
    /\ UNCHANGED <<sessions, stats, tasks, msg_frame>>

\* process_message, lines 66-111, up to its return or to the first await of
\* an extraction that suspends it. rejected: a middleware returns False for
\* the message.
ProcessMessage(m, rejected) ==
    /\ Len(tasks) < MaxMessages
    /\ IF ~Parses(m)
       THEN \* line 73 raises, and so does line 105 in the except block
            /\ stats' = Failed
            /\ tasks' = Append(tasks, Task(m, "raised", "none", <<>>))
            /\ UNCHANGED sessions
       ELSE IF rejected
       THEN \* lines 76-79
            /\ stats' = Received
            /\ tasks' = Append(tasks, Task(m, "returned", "none", <<>>))
            /\ UNCHANGED sessions
       ELSE IF m.type \notin HandledTypes
       THEN \* lines 82-84 and 99-111
            /\ stats' = Failed
            /\ tasks' = Append(tasks, Task(m, "returned", "error", <<>>))
            /\ UNCHANGED sessions
       ELSE IF m.type = "ping"
       THEN \* _handle_ping, lines 146-152
            /\ stats' = Processed
            /\ tasks' = Append(tasks, Task(m, "returned", "success", <<>>))
            /\ UNCHANGED sessions
       ELSE IF m.type = "session.create"
       THEN \* _handle_session_create, lines 172-188
            /\ sessions' = (GeneratedSessionId(now) :> "active") @@ sessions
            /\ stats' = Processed
            /\ tasks' = Append(tasks, Task(m, "returned", "success",
                                           GeneratedSessionId(now)))
       ELSE IF m.type = "extraction.cancel"
       THEN \* _handle_extraction_cancel, lines 373-394
            IF m.sessionId \notin DOMAIN sessions
            THEN /\ stats' = Processed
                 /\ tasks' = Append(tasks, Task(m, "returned", "error", m.sessionId))
                 /\ UNCHANGED sessions
            ELSE /\ sessions' = [sessions EXCEPT ![m.sessionId] = "cancelled"]
                 /\ stats' = Processed
                 /\ tasks' = Append(tasks, Task(m, "returned", "success", m.sessionId))
       ELSE \* _handle_extraction, lines 268-293 and 367-368
            LET id == IF m.sessionId = <<>> THEN GeneratedSessionId(now)
                      ELSE m.sessionId
            IN /\ sessions' = (id :> "processing") @@ sessions
               /\ stats' = Received
               /\ tasks' = Append(tasks, Task(m, "sleeping", "none", id))
    /\ UNCHANGED <<now, msg_frame>>

\* _handle_extraction, lines 295-347, and process_message, lines 89-97: the
\* last asyncio.sleep of the extraction is over, the session is updated and
\* the response returned.
ResumeExtraction(i) ==
    /\ i \in 1..Len(tasks)
    /\ tasks[i].pc = "sleeping"
    /\ sessions' = [sessions EXCEPT ![tasks[i].session_id] = "completed"]
    /\ stats' = [stats EXCEPT !.messages_processed = @ + 1]
    /\ tasks' = [tasks EXCEPT ![i].pc = "returned", ![i].response = "success"]
    /\ UNCHANGED <<now, msg_frame>>

MessagesNext ==
    \/ SecondPasses
    \/ \E m \in Messages, rejected \in BOOLEAN : ProcessMessage(m, rejected)
    \/ \E i \in 1..MaxMessages : ResumeExtraction(i)

SpecMessages == MsgInit /\ [][MessagesNext]_vars

\* C38: process_message never raises: every call returns a response or
\* None.
C38_ProcessMessageNeverRaises ==
    \A i \in 1..Len(tasks) : tasks[i].pc # "raised"

\* The process_message call started in this step registers a session under
\* a generated id.
RegistersSession ==
    /\ Len(tasks') = Len(tasks) + 1
    /\ LET task == tasks'[Len(tasks')]
       IN \/ task.msg.type = "session.create" /\ task.response = "success"
          \/ /\ task.msg.type = "extraction.process" /\ task.msg.sessionId = <<>>
             /\ task.pc = "sleeping"

\* C39: a session.create, and an extraction.process without a sessionId,
\* registers its session under an id no session had: the number of sessions
\* grows by one.
C39_NewSessionGetsNewId ==
    [][RegistersSession =>
          /\ tasks'[Len(tasks')].session_id \notin DOMAIN sessions
          /\ Cardinality(DOMAIN sessions') = Cardinality(DOMAIN sessions) + 1]_vars

\* C40: the status of a cancelled session is not overwritten with completed.
C40_CancelledStaysCancelled ==
    [][\A id \in DOMAIN sessions :
          sessions[id] = "cancelled" /\ id \in DOMAIN sessions'
              => sessions'[id] # "completed"]_vars

\* ======================================================================
\* Concurrent add_revision calls while the clock advances
\* ======================================================================
\* Two threads revise the field h1/amount, which an earlier call has
\* extracted; the wall clock advances between the statements of the calls.
RevisionCalls == {a \in RevisionArgs : a.file_hash = "h1"}

InitRevisions ==
    /\ ProcInit /\ TxnInit /\ ops_left = MaxCalls /\ frame = NoFrame /\ SecIdle
    /\ extraction_revisions = <<>> /\ clock = 0 /\ last_call = NoCall
    /\ \E st \in {s \in InitialStores : s.rows # {}} :
         /\ extraction_history = st.history
         /\ field_extractions = st.rows
         /\ audit_logs = st.audit
         /\ next_id = st.next_id

\* datetime.now() has a later value.
ClockAdvances ==
    /\ clock < MaxClock
    /\ clock' = clock + 1
    /\ UNCHANGED <<extraction_history, extraction_revisions, field_extractions,
                   audit_logs, next_id, ops_left, last_call>>
    /\ UNCHANGED <<proc_vars, txn_vars, frame, sec_vars>>

RevisionsNext ==
    \/ ClockAdvances
    \/ \E t \in Threads, a \in RevisionCalls : StartAddRevision(t, a)
    \/ \E t \in Threads : AcquireLock(t)
    \/ \E t \in Threads : InsertRevision(t)
    \/ \E t \in Threads : UpdateRevisedField(t)
    \/ \E t \in Threads : Commit(t)
    \/ \E t \in Threads : ReleaseLock(t)
    \/ \E t \in Threads : LogRevision(t)
    \/ \E t \in Threads : InsertHistory(t)
    \/ \E t \in Threads : BaseAudit(t)

SpecRevisions == InitRevisions /\ [][RevisionsNext]_vars

\* get_field_history, lines 414-418: the revisions of the key, ORDER BY
\* timestamp ASC; those that can be last in the list.
LastRevisions(file_hash, field_name) ==
    LET of_key == {i \in 1..Len(extraction_revisions) :
                      /\ extraction_revisions[i].file_hash = file_hash
                      /\ extraction_revisions[i].field_name = field_name}
    IN {extraction_revisions[i] : i \in
           {j \in of_key : \A k \in of_key :
               extraction_revisions[k].timestamp <= extraction_revisions[j].timestamp}}

\* C33: when the add_revision calls on a key have all ended, the row of the
\* key has the new value and the new confidence of the revision that is last
\* in the order of the timestamps.
C33_RowMatchesLastRevision ==
    (\A t \in Threads : tpc[t] = "idle")
        => \A r \in field_extractions :
             LastRevisions(r.file_hash, r.field_name) # {}
                => \E last \in LastRevisions(r.file_hash, r.field_name) :
                     /\ r.current_value = last.new_value
                     /\ r.current_confidence = last.new_confidence

\* ======================================================================
\* Concurrent writers: the lock and the end of every call
\* ======================================================================
\* The statements of a call thread t has started.
ThreadStep(t) ==
    \/ AcquireLock(t)
    \/ InsertHistory(t)
    \/ SelectExisting(t)
    \/ UpsertField(t)
    \/ InsertRevision(t)
    \/ UpdateRevisedField(t)
    \/ Commit(t)
    \/ ReleaseLock(t)
    \/ LogRevision(t)
    \/ BaseAudit(t)

WritersNext ==
    \/ \E t \in Threads, a \in ThreadLogArgs : StartLogExtraction(t, a)
    \/ \E t \in Threads, a \in ThreadRevisionArgs : StartAddRevision(t, a)
    \/ \E t \in Threads : AcquireLock(t)
    \/ \E t \in Threads : InsertHistory(t)
    \/ \E t \in Threads : SelectExisting(t)
    \/ \E t \in Threads : UpsertField(t)
    \/ \E t \in Threads : InsertRevision(t)
    \/ \E t \in Threads : UpdateRevisedField(t)
    \/ \E t \in Threads : Commit(t)
    \/ \E t \in Threads : ReleaseLock(t)
    \/ \E t \in Threads : LogRevision(t)
    \/ \E t \in Threads : BaseAudit(t)
    \/ \E t \in Threads : StorageFails(t)

\* Every thread is scheduled again and again: a statement a thread can
\* execute is executed, unless it fails.
SpecWriters ==
    InitThreads /\ [][WritersNext]_vars /\ \A t \in Threads : WF_vars(ThreadStep(t))

\* C34: a thread does not hold the store lock when it calls log_extraction
\* from add_revision, waits for the store lock again or is in the base audit
\* logger; a thread that holds the lock releases it, also when its
\* transaction raises, and every call that was started ends.
C34_LockReleasedAndCallsEnd ==
    /\ [](\A t \in Threads : tpc[t] \in {"rev_log", "log_lock", "log_audit"} => lock # t)
    /\ \A t \in Threads :
         /\ (lock = t) ~> (lock # t)
         /\ (tpc[t] # "idle") ~> (tpc[t] = "idle")
C34_Witness ==
    \E t, u \in Threads :
        /\ t # u
        /\ calls[t].op = "add_revision" /\ tpc[t] = "log_lock" /\ calls[t].log # <<>>
        /\ lock = u /\ calls[u].op = "log_extraction"

\* C35: a log_extraction or add_revision call that has raised has left no
\* revision and no history event of its own in the store.
C35_RaisedCallLeavesStore ==
    \A t \in Threads :
        (/\ calls[t].op \in {"log_extraction", "add_revision"}
         /\ tpc[t] = "idle"
         /\ calls[t].outcome \notin {"none", "returned"})
        => /\ \A i \in 1..Len(extraction_revisions) :
                calls[t].op = "add_revision"
                   => extraction_revisions[i].revision_id # calls[t].id
           /\ \A i \in 1..Len(extraction_history) :
                calls[t].log # <<>>
                   => extraction_history[i].id # calls[t].log.log_id

====
